---- MODULE Spec2Model ----
(***************************************************************************)
(* A model of the DCF analysis suite.  The DCF page                         *)
(* (src/pages/3_DCF_Model.py): the sidebar that turns widget input into    *)
(* assumption vectors, and the valuation run that projects, discounts,     *)
(* capitalises and bridges to an implied share price, followed by the      *)
(* three sensitivity passes.  The WACC page                                *)
(* (src/pages/1_WACC_Calculator.py): the credit-spread lookup, the capital *)
(* weights, the market-model regression and the three WACC values saved    *)
(* to the session state.  The historical analysis page                     *)
(* (src/pages/2_Historical_Analysis.py): growth rates, margins, net        *)
(* working capital and reinvestment.  The pages share one session: each    *)
(* page's script runs from its first line on every press of its button.    *)
(*                                                                         *)
(* Numbers.  The program computes in IEEE doubles (numpy float64 once a    *)
(* value has passed through a DataFrame).  The model computes in exact     *)
(* rationals <<n, d>> in lowest terms with d > 0, extended by the three    *)
(* values a numpy division can produce without raising: <<1, 0>> (inf),    *)
(* <<-1, 0>> (-inf) and <<0, 0>> (nan).  Rounding error is not modelled.   *)
(***************************************************************************)
EXTENDS Integers, Sequences, FiniteSets, TLC

----------------------------------------------------------------------------
(* Extended rational arithmetic (the float64 operators of the source)      *)

Abs(x) == IF x < 0 THEN -x ELSE x

Sgn(x) == IF x < 0 THEN -1 ELSE IF x > 0 THEN 1 ELSE 0

RECURSIVE GCD(_, _)
GCD(a, b) == IF b = 0 THEN Abs(a) ELSE GCD(b, a % Abs(b))

\* n/d in lowest terms; a zero denominator gives inf, -inf or nan by the sign of n
Norm(n, d) ==
  IF d = 0 THEN <<Sgn(n), 0>>
  ELSE LET g == GCD(n, d)
           s == IF d < 0 THEN -1 ELSE 1
       IN <<s * (n \div g), s * (d \div g)>>

Zero == <<0, 1>>
One == <<1, 1>>
PosInf == <<1, 0>>
NegInf == <<-1, 0>>
NaN == <<0, 0>>

IsFinite(x) == x[2] # 0
IsNaN(x) == x = NaN

RNeg(x) == <<-x[1], x[2]>>

\* float addition: nan absorbs, inf + -inf = nan, inf + finite = inf
RAdd(x, y) ==
  IF IsNaN(x) \/ IsNaN(y) THEN NaN
  ELSE IF ~IsFinite(x) /\ ~IsFinite(y) THEN (IF x = y THEN x ELSE NaN)
  ELSE IF ~IsFinite(x) THEN x
  ELSE IF ~IsFinite(y) THEN y
  ELSE LET g == GCD(x[2], y[2])
           l == (x[2] \div g) * y[2]
       IN Norm(x[1] * (l \div x[2]) + y[1] * (l \div y[2]), l)

RSub(x, y) == RAdd(x, RNeg(y))

\* float multiplication: inf * 0 = nan, signs multiply
RMul(x, y) ==
  IF ~IsFinite(x) \/ ~IsFinite(y) THEN Norm(x[1] * y[1], 0)
  ELSE LET g1 == GCD(x[1], y[2])
           g2 == GCD(y[1], x[2])
       IN Norm((x[1] \div g1) * (y[1] \div g2), (x[2] \div g2) * (y[2] \div g1))

\* numpy float64 division: x/0 is inf or -inf by the sign of x, 0/0 is nan,
\* and nothing is raised (a RuntimeWarning only)
RDiv(x, y) ==
  IF IsNaN(x) \/ IsNaN(y) THEN NaN
  ELSE IF ~IsFinite(y) THEN (IF IsFinite(x) THEN Zero ELSE NaN)
  ELSE IF y[1] = 0 THEN Norm(x[1], 0)
  ELSE RMul(x, Norm(y[2], y[1]))

RECURSIVE RPow(_, _)
RPow(x, t) == IF t = 0 THEN One ELSE RMul(RPow(x, t - 1), x)

\* x < y on finite rationals, by comparing integer parts and then the
\* reciprocals of the fractional parts (no cross products)
RECURSIVE FinLess(_, _, _, _)
FinLess(a, b, c, d) ==
  LET q1 == a \div b
      q2 == c \div d
      r1 == a % b
      r2 == c % d
  IN IF q1 # q2 THEN q1 < q2
     ELSE IF r2 = 0 THEN FALSE
     ELSE IF r1 = 0 THEN TRUE
     ELSE FinLess(d, r2, b, r1)

\* float comparison: every comparison with nan is false
RLess(x, y) ==
  IF IsNaN(x) \/ IsNaN(y) THEN FALSE
  ELSE IF x = y THEN FALSE
  ELSE IF x = NegInf \/ y = PosInf THEN TRUE
  ELSE IF x = PosInf \/ y = NegInf THEN FALSE
  ELSE FinLess(x[1], x[2], y[1], y[2])

RECURSIVE RSum(_)
RSum(s) == IF Len(s) = 0 THEN Zero ELSE RAdd(RSum(SubSeq(s, 1, Len(s) - 1)), s[Len(s)])

\* a widget value in percent divided by 100
Pct(p) == Norm(p, 100)

----------------------------------------------------------------------------
(* The pure functions of src/pages/3_DCF_Model.py                           *)

\* pandas Series.cumprod(): running product, entry t = s[1] * ... * s[t]
RECURSIVE cumprod(_)
cumprod(s) ==
  IF Len(s) = 0 THEN <<>>
  ELSE LET p == cumprod(SubSeq(s, 1, Len(s) - 1))
       IN Append(p, IF Len(p) = 0 THEN s[1] ELSE RMul(p[Len(p)], s[Len(s)]))

\* mutant: each year grows from the LTM base by its own rate, without compounding
RevenueColumnNotCompounded(ltm_rev, growth) ==
  [t \in 1..Len(growth) |-> RMul(ltm_rev, RAdd(One, growth[t]))]

\* projection['Revenue'] = ltm_revenue * (1 + projection['Revenue Growth']).cumprod()
RevenueColumn(ltm_rev, growth) ==
  LET c == cumprod([t \in 1..Len(growth) |-> RAdd(One, growth[t])])
  IN [t \in 1..Len(growth) |-> RMul(ltm_rev, c[t])]

\* projection['EBIT'] = projection['Revenue'] * projection['EBIT Margin']
EBITColumn(revenue, margin) == [t \in 1..Len(revenue) |-> RMul(revenue[t], margin[t])]

\* mutant: the tax itself instead of what is left after tax
NOPATColumnTaxPaid(ebit, tax) == [t \in 1..Len(ebit) |-> RMul(ebit[t], tax)]

\* projection['NOPAT'] = projection['EBIT'] * (1 - tax_rate)
NOPATColumn(ebit, tax) == [t \in 1..Len(ebit) |-> RMul(ebit[t], RSub(One, tax))]

\* projection['FCF'] = projection['NOPAT'] * (1 - projection['Reinv Rate'])
FCFColumn(nopat, reinv) == [t \in 1..Len(nopat) |-> RMul(nopat[t], RSub(One, reinv[t]))]

\* The DataFrame as a record of columns; the 'Discounted FCF' column does not
\* exist until discount_cash_flows adds it (modelled as the empty column).
project_financials(ltm_rev, growth, margin, reinv, tax) ==
  LET rev == RevenueColumn(ltm_rev, growth)
      ebit == EBITColumn(rev, margin)
      nopat == NOPATColumn(ebit, tax)
  IN [RevenueGrowth |-> growth, EBITMargin |-> margin, ReinvRate |-> reinv,
      Revenue |-> rev, EBIT |-> ebit, NOPAT |-> nopat,
      FCF |-> FCFColumn(nopat, reinv), DiscountedFCF |-> <<>>]

\* mutant: np.arange(len(projection)), periods counted from 0
PeriodsFromZero(n) == [i \in 1..n |-> i - 1]

\* periods = np.arange(1, len(projection) + 1)
Periods(n) == [i \in 1..n |-> i]

\* FCF / (1 + wacc) ** periods, element by element
DiscountColumn(fcf, w) ==
  LET periods == Periods(Len(fcf))
  IN [t \in 1..Len(fcf) |-> RDiv(fcf[t], RPow(RAdd(One, w), periods[t]))]

\* discount_cash_flows writes the column into the frame it was given
discount_cash_flows(proj, w) == [proj EXCEPT !.DiscountedFCF = DiscountColumn(proj.FCF, w)]

\* mutant: the final cash flow is not grown by one year
calculate_terminal_value_ungrown(fcf_final, w, g, num_periods) ==
  LET tv == RDiv(fcf_final, RSub(w, g))
  IN [terminal_value |-> tv, pv_terminal |-> RDiv(tv, RPow(RAdd(One, w), num_periods))]

\* mutant: the denominator's operands are swapped
calculate_terminal_value_swapped(fcf_final, w, g, num_periods) ==
  LET tv == RDiv(RMul(fcf_final, RAdd(One, g)), RSub(g, w))
  IN [terminal_value |-> tv, pv_terminal |-> RDiv(tv, RPow(RAdd(One, w), num_periods))]

\* returns (terminal_value, pv_terminal); there is no test of wacc against
\* terminal_growth, and float64 division does not raise
calculate_terminal_value(fcf_final, w, g, num_periods) ==
  LET tv == RDiv(RMul(fcf_final, RAdd(One, g)), RSub(w, g))
  IN [terminal_value |-> tv, pv_terminal |-> RDiv(tv, RPow(RAdd(One, w), num_periods))]

\* mutant: cash is subtracted like debt
calculate_share_price_cash_subtracted(pv_fcf_sum, pv_term, debt, cash, shares) ==
  LET firm == RAdd(pv_fcf_sum, pv_term)
      equity == RSub(RSub(firm, debt), cash)
  IN [firm_value |-> firm, equity_value |-> equity, share_price |-> RDiv(equity, shares)]

\* returns (firm_value, equity_value, share_price); there is no test of
\* shares_outstanding, and float64 division does not raise
calculate_share_price(pv_fcf_sum, pv_term, debt, cash, shares) ==
  LET firm == RAdd(pv_fcf_sum, pv_term)
      equity == RAdd(RSub(firm, debt), cash)
  IN [firm_value |-> firm, equity_value |-> equity, share_price |-> RDiv(equity, shares)]

\* np.linspace(a, b, n): n evenly spaced values from a to b inclusive
linspace(a, b, n) ==
  [i \in 1..n |-> IF n = 1 THEN a
                  ELSE RAdd(a, RMul(Norm(i - 1, n - 1), RSub(b, a)))]

\* Dates are <<year, month, day>>.
IsLeapYear(y) == (y % 4 = 0 /\ y % 100 # 0) \/ y % 400 = 0

DaysInMonth(y, m) ==
  IF m = 2 THEN (IF IsLeapYear(y) THEN 29 ELSE 28)
  ELSE IF m \in {4, 6, 9, 11} THEN 30 ELSE 31

MonthEnd(y, m) == <<y, m, DaysInMonth(y, m)>>

DateLess(a, b) ==
  \/ a[1] < b[1]
  \/ a[1] = b[1] /\ a[2] < b[2]
  \/ a[1] = b[1] /\ a[2] = b[2] /\ a[3] < b[3]

\* freq_dict, lines 50-51: 'YE-JAN' .. 'YE-DEC', the year ending in that month
freq_dict == [m \in 1..12 |-> [rule |-> "YE", month |-> m]]

\* pd.date_range(start=start, periods=periods, freq=f) for a year-end
\* frequency: the first year-end on or after start, then one per year
date_range(start, periods, f) ==
  LET this_year == MonthEnd(start[1], f.month)
      first_year == IF DateLess(this_year, start) THEN start[1] + 1 ELSE start[1]
  IN [k \in 1..periods |-> MonthEnd(first_year + k - 1, f.month)]

\* mutant: the first num_years dates of the range, T=0 among them
create_projection_dates_from_anchor(anchor, n) ==
  LET f == freq_dict[anchor[2]]
      new_dates == date_range(anchor, n + 1, f)
  IN SubSeq(new_dates, 1, n)

\* lines 48-56
create_projection_dates(anchor, n) ==
  LET f == freq_dict[anchor[2]]
      new_dates == date_range(anchor, n + 1, f)
  IN Tail(new_dates)

----------------------------------------------------------------------------
(* Advanced-mode text handling (lines 152-176).  A text is a sequence of   *)
(* one-character strings.                                                  *)

Min(a, b) == IF a < b THEN a ELSE b

Digits == {"0", "1", "2", "3", "4", "5", "6", "7", "8", "9"}

DigitValue(c) ==
  CASE c = "0" -> 0 [] c = "1" -> 1 [] c = "2" -> 2 [] c = "3" -> 3 [] c = "4" -> 4
    [] c = "5" -> 5 [] c = "6" -> 6 [] c = "7" -> 7 [] c = "8" -> 8 [] c = "9" -> 9

\* str.split(','): always at least one piece; ''.split(',') is ['']
RECURSIVE split(_)
split(text) ==
  IF \E i \in 1..Len(text) : text[i] = ","
  THEN LET i == CHOOSE k \in 1..Len(text) :
                  text[k] = "," /\ \A j \in 1..(k - 1) : text[j] # ","
       IN <<SubSeq(text, 1, i - 1)>> \o split(SubSeq(text, i + 1, Len(text)))
  ELSE <<text>>

RECURSIVE lstrip(_)
lstrip(x) == IF Len(x) > 0 /\ x[1] = " " THEN lstrip(Tail(x)) ELSE x

RECURSIVE rstrip(_)
rstrip(x) == IF Len(x) > 0 /\ x[Len(x)] = " " THEN rstrip(SubSeq(x, 1, Len(x) - 1)) ELSE x

\* str.strip()
strip(x) == rstrip(lstrip(x))

\* float(x) raises ValueError unless x is a number; over the characters
\* modelled (digits, comma, blank, letters) a number is a non-empty digit string
float_raises(x) == Len(x) = 0 \/ \E i \in 1..Len(x) : x[i] \notin Digits

RECURSIVE float(_)
float(x) == IF Len(x) = 0 THEN 0 ELSE 10 * float(SubSeq(x, 1, Len(x) - 1)) + DigitValue(x[Len(x)])

\* [float(x.strip())/100 for x in text.split(',')][:num_years]: the whole text
\* is converted before the slice, so a bad entry beyond num_years raises too
parse_pattern(text, n) ==
  LET entries == split(text)
      raised == \E i \in 1..Len(entries) : float_raises(strip(entries[i]))
  IN [raised |-> raised,
      value |-> IF raised THEN <<>>
                ELSE SubSeq([i \in 1..Len(entries) |-> Pct(float(strip(entries[i])))],
                            1, Min(n, Len(entries)))]

\* while len(pattern) < num_years: pattern.append(pattern[-1] if pattern else default)
RECURSIVE pad_with_last(_, _, _)
pad_with_last(pattern, n, default) ==
  IF Len(pattern) < n
  THEN pad_with_last(Append(pattern, IF Len(pattern) > 0 THEN pattern[Len(pattern)] ELSE default),
                     n, default)
  ELSE pattern

\* the try/except of lines 159-176: one try around all three vectors, so a
\* ValueError in any of them replaces all three by the fixed defaults
advanced_patterns(growth_in, ebit_in, reinv_in, n) ==
  LET g == parse_pattern(growth_in, n)
      e == parse_pattern(ebit_in, n)
      r == parse_pattern(reinv_in, n)
  IN IF g.raised \/ e.raised \/ r.raised
     THEN [growth_pattern |-> [i \in 1..n |-> Pct(15)],
           ebit_margin_pattern |-> [i \in 1..n |-> Pct(46)],
           reinv_rate_pattern |-> [i \in 1..n |-> Pct(20)],
           error |-> TRUE]
     ELSE [growth_pattern |-> pad_with_last(g.value, n, Pct(6)),
           ebit_margin_pattern |-> pad_with_last(e.value, n, Pct(46)),
           reinv_rate_pattern |-> pad_with_last(r.value, n, Pct(20)),
           error |-> FALSE]

\* Simple mode, lines 133-146
simple_patterns(initial_growth, final_growth, ebit_margin_const, initial_reinv, final_reinv, n) ==
  [growth_pattern |-> linspace(initial_growth, final_growth, n),
   ebit_margin_pattern |-> [i \in 1..n |-> ebit_margin_const],
   reinv_rate_pattern |-> linspace(initial_reinv, final_reinv, n),
   error |-> FALSE]

\* mutant: no copy, the pass rewrites the primary projection's column
sensitivity_pass_in_place(proj, fcf_final, current_wacc, g, debt, cash, shares) ==
  LET copy == [proj EXCEPT !.DiscountedFCF = DiscountColumn(proj.FCF, current_wacc)]
      tv == calculate_terminal_value(fcf_final, current_wacc, g, Len(copy.FCF))
      sp == calculate_share_price(RSum(copy.DiscountedFCF), tv.pv_terminal, debt, cash, shares)
  IN [projection |-> copy, current_projection |-> copy,
      current_share_price |-> sp.share_price]

\* One pass of the sensitivity loop (lines 490-510) as the new values of
\* everything it names: the frame is copied before the column is rewritten,
\* so the primary projection is returned as it was.
sensitivity_pass(proj, fcf_final, current_wacc, g, debt, cash, shares) ==
  LET copy == [proj EXCEPT !.DiscountedFCF = DiscountColumn(proj.FCF, current_wacc)]
      tv == calculate_terminal_value(fcf_final, current_wacc, g, Len(copy.FCF))
      sp == calculate_share_price(RSum(copy.DiscountedFCF), tv.pv_terminal, debt, cash, shares)
  IN [projection |-> proj, current_projection |-> copy,
      current_share_price |-> sp.share_price]

----------------------------------------------------------------------------
(* The DCF page as a state machine: one script run of the sidebar, then    *)
(* the valuation run behind the "Calculate Valuation" button.              *)

VARIABLES
  pc,                   \* where the script is
  num_years,            \* slider, line 124
  projection_mode,      \* "Simple" | "Advanced" (unset: "")
  growth_input, ebit_input, reinv_input,      \* Advanced-mode text areas
  growth_pattern, ebit_margin_pattern, reinv_rate_pattern,
  sidebar_error,        \* "Invalid input format. Using defaults." was shown
  tax_rate, terminal_growth, wacc_lower, wacc, wacc_upper,
  ltm_revenue, shares_outstanding, total_debt, total_cash,
  projection,           \* the DataFrame of the primary projection
  total_pv_fcf, final_fcf, terminal_value, pv_terminal,
  firm_value, equity_value, share_price,
  current_projection,   \* the sensitivity loop's copy
  share_prices          \* the sensitivity loop's list

\* What the later sections of the page read and write.
VARIABLES
  wacc_input_mode,      \* radio "WACC Input", line 184
  most_recent_date,     \* end of the last reported quarter, <<year, month, day>>
  current_price,        \* info's 'currentPrice', else 'regularMarketPrice', else 0
  projection_dates,     \* index of the projection, line 241
  upside,               \* bound by line 442 only
  run,                  \* how many times the button was pressed in this session
  previous_run          \* inputs and outputs of the run before this one

widgetVars == <<num_years, tax_rate, terminal_growth, wacc_lower, wacc, wacc_upper,
                wacc_input_mode>>
patternVars == <<projection_mode, growth_input, ebit_input, reinv_input,
                 growth_pattern, ebit_margin_pattern, reinv_rate_pattern, sidebar_error>>
infoVars == <<ltm_revenue, shares_outstanding, total_debt, total_cash,
              most_recent_date, current_price>>
valueVars == <<total_pv_fcf, final_fcf, terminal_value, pv_terminal,
               firm_value, equity_value, share_price>>
sensVars == <<current_projection, share_prices>>
rerunVars == <<run, previous_run>>

\* The WACC calculator page (src/pages/1_WACC_Calculator.py).  Names that the
\* two pages share carry the page in the model: wacc_pc, wacc_total_debt, and
\* wacc_point for the page's `wacc`.
VARIABLES
  wacc_pc,              \* where the WACC page's script is
  rf, firm_rating, emrp, marg_tax_rate, scale_factor,     \* sidebar, lines 110-118
  info,                 \* ticker.info: [marketCap, totalDebt]
  stock_data, index_data,                                 \* monthly closes, by month
  market_cap, wacc_total_debt, w_E, w_D,
  beta, beta_lower_ci, beta_upper_ci, cost_of_equity,
  credit_spread, cost_of_debt,
  wacc_lower_ci, wacc_point, wacc_upper_ci,
  wacc_results,         \* st.session_state.wacc_results
  caught                \* the exception the handler of lines 314-316 caught

VARIABLES
  ticker_symbol,        \* sidebar, line 109
  now,                  \* the clock pd.Timestamp.now() reads, one tick per button press
  stock_returns, index_returns      \* lines 88-89, as the regression receives them

\* The historical analysis page (src/pages/2_Historical_Analysis.py).  A
\* statement is a record of columns over the same reporting periods, oldest
\* first (get_financial_data sorts the index).
VARIABLES
  hist_pc,              \* where the historical page's script is
  fill_method,          \* pct_change's default: "pad" before pandas 3, none since
  income_stmt, balance_sheet, cash_flows,     \* line 113
  reported_capex,       \* 'Capital Expenditure' as the provider reported it
  income_with_metrics, balance_with_nwc,      \* lines 121-122
  reinvestment_df       \* lines 129-134

histDataVars == <<income_stmt, balance_sheet, cash_flows, reported_capex>>
histVars == <<hist_pc, fill_method, histDataVars, income_with_metrics, balance_with_nwc,
              reinvestment_df>>

waccWidgetVars == <<rf, firm_rating, emrp, marg_tax_rate, scale_factor, ticker_symbol, now>>
waccDataVars == <<info, stock_data, index_data>>
weightVars == <<market_cap, wacc_total_debt, w_E, w_D>>
betaVars == <<beta, beta_lower_ci, beta_upper_ci, cost_of_equity>>
returnVars == <<stock_returns, index_returns>>
debtVars == <<credit_spread, cost_of_debt>>
waccResultVars == <<wacc_lower_ci, wacc_point, wacc_upper_ci, wacc_results>>
waccVars == <<wacc_pc, waccWidgetVars, waccDataVars, weightVars, betaVars, returnVars,
              debtVars, waccResultVars, caught>>

dcfVars == <<pc, widgetVars, patternVars, infoVars, projection_dates, projection, valueVars,
             upside, sensVars, rerunVars>>

vars == <<dcfVars, waccVars, histVars>>

\* a name that no statement has bound yet
Unbound == <<>>

\* the WACC page after its sidebar ran and before the button is pressed
WaccNotRun ==
  /\ info = Unbound /\ stock_data = Unbound /\ index_data = Unbound
  /\ market_cap = Unbound /\ wacc_total_debt = Unbound /\ w_E = Unbound /\ w_D = Unbound
  /\ beta = Unbound /\ beta_lower_ci = Unbound /\ beta_upper_ci = Unbound
  /\ cost_of_equity = Unbound
  /\ stock_returns = Unbound /\ index_returns = Unbound
  /\ credit_spread = Unbound /\ cost_of_debt = Unbound
  /\ wacc_lower_ci = Unbound /\ wacc_point = Unbound /\ wacc_upper_ci = Unbound
  /\ wacc_results = Unbound
  /\ caught = ""

\* the historical page before its button is pressed
HistNotRun ==
  /\ hist_pc = "sidebar"
  /\ fill_method = "pad"
  /\ income_stmt = Unbound /\ balance_sheet = Unbound /\ cash_flows = Unbound
  /\ reported_capex = Unbound
  /\ income_with_metrics = Unbound /\ balance_with_nwc = Unbound
  /\ reinvestment_df = Unbound

\* the text of a string literal, one character per element
AaaAAA == <<"A", "a", "a", "/", "A", "A", "A">>

\* the WACC page's widgets at their default values (lines 110-118)
WaccDefaults ==
  /\ wacc_pc = "sidebar"
  /\ rf = Norm(45, 1000) /\ firm_rating = AaaAAA /\ emrp = Pct(5) /\ marg_tax_rate = Pct(25)
  /\ scale_factor = 1000000
  /\ ticker_symbol = "MSFT"
  /\ now = 1
  /\ WaccNotRun

\* the slider's smallest horizon
MinYears == 5

\* a text from its comma-separated entries
RECURSIVE Join(_)
Join(entries) ==
  IF Len(entries) = 0 THEN <<>>
  ELSE IF Len(entries) = 1 THEN entries[1]
  ELSE entries[1] \o <<",">> \o Join(Tail(entries))

\* Advanced-mode texts of the valuation run: well-formed, shorter and longer
\* than the horizon, with and without blanks around the numbers
GrowthTexts ==
  { Join(<< <<"5", "0">>, <<"0">> >>),
    Join(<< <<"0">>, <<"5", "0">>, <<"0">>, <<"0">>, <<"0">>, <<"0">>, <<"5", "0">> >>) }
EbitTexts ==
  { Join(<< <<"1", "0", "0">>, <<" ", "5", "0", " ">> >>),
    Join(<< <<"0">> >>) }
ReinvTexts ==
  { Join(<< <<"0">> >>),
    Join(<< <<"5", "0">>, <<"1", "5", "0">> >>) }
RunTexts == GrowthTexts \X EbitTexts \X ReinvTexts

\* Simple-mode number inputs, in percent, within the widgets' ranges
SimpleGrowthPcts == {0, 50}
SimpleMarginPcts == {0, 50}
SimpleInitialReinvPcts == {100}
SimpleFinalReinvPcts == {0, 100}

TaxPcts == {0, 50}
TerminalGrowthPcts == {0, 5, 10}
\* the three WACC inputs are independent widgets in [0 %, 30 %], step 0.1
WaccRates == {Zero, Norm(125, 1000), Pct(20), Pct(25)}
WaccTriples ==
  {t \in WaccRates \X WaccRates \X WaccRates :
     \/ RLess(t[1], t[2]) /\ RLess(t[2], t[3])
     \/ t[1] = t[2] /\ t[2] = t[3]}

\* what the data provider returns
LtmRevenues == {<<64, 1>>}
ShareCounts == {<<0, 1>>, <<4, 1>>}
DebtCash == {<<Zero, Zero>>, <<<<8, 1>>, <<2, 1>>>>}
LtmDates == {<<2024, 6, 30>>}
CurrentPrices == {<<2, 1>>}

Answers(revenues, shares, debt_cash, dates, prices) ==
  {[ltm_revenue |-> r, shares_outstanding |-> n, total_debt |-> dc[1], total_cash |-> dc[2],
    most_recent_date |-> d, current_price |-> p] :
     r \in revenues, n \in shares, dc \in debt_cash, d \in dates, p \in prices}

\* every profile with a current price, and one that has neither
\* 'currentPrice' nor 'regularMarketPrice'
ProviderAnswers ==
  Answers(LtmRevenues, ShareCounts, DebtCash, LtmDates, CurrentPrices)
    \cup Answers(LtmRevenues, {<<4, 1>>}, {<<Zero, Zero>>}, LtmDates, {Zero})

NoFrame == [RevenueGrowth |-> <<>>, EBITMargin |-> <<>>, ReinvRate |-> <<>>,
            Revenue |-> <<>>, EBIT |-> <<>>, NOPAT |-> <<>>, FCF |-> <<>>,
            DiscountedFCF |-> <<>>]

\* the names of the run before any statement of the run bound them
FreshRun ==
  /\ ltm_revenue = Zero /\ shares_outstanding = Zero /\ total_debt = Zero /\ total_cash = Zero
  /\ most_recent_date = Unbound /\ current_price = Zero
  /\ projection_dates = <<>>
  /\ projection = NoFrame
  /\ total_pv_fcf = Zero /\ final_fcf = Zero /\ terminal_value = Zero /\ pv_terminal = Zero
  /\ firm_value = Zero /\ equity_value = Zero /\ share_price = Zero
  /\ upside = Unbound
  /\ current_projection = NoFrame /\ share_prices = <<>>

InitRun ==
  /\ projection_mode = "" /\ growth_input = <<>> /\ ebit_input = <<>> /\ reinv_input = <<>>
  /\ growth_pattern = <<>> /\ ebit_margin_pattern = <<>> /\ reinv_rate_pattern = <<>>
  /\ sidebar_error = FALSE
  /\ FreshRun
  /\ run = 1 /\ previous_run = Unbound

\* The valuation run is explored at the slider's smallest horizon: the exact
\* rationals of a longer run leave TLC's 32-bit integers.  The sidebar alone
\* (SpecInput below) is explored for every horizon up to MaxYears.
Init ==
  /\ pc = "sidebar"
  /\ num_years = MinYears
  /\ tax_rate \in {Pct(p) : p \in TaxPcts}
  /\ terminal_growth \in {Pct(p) : p \in TerminalGrowthPcts}
  /\ \E t \in WaccTriples : wacc_lower = t[1] /\ wacc = t[2] /\ wacc_upper = t[3]
  /\ wacc_input_mode = "Manual"
  /\ InitRun
  /\ WaccDefaults
  /\ HistNotRun

\* the other pages, and what only a second press of the button changes
elsewhere == <<waccVars, histVars, rerunVars>>

\* lines 133-146
SimpleMode ==
  /\ pc = "sidebar"
  /\ \E ig \in SimpleGrowthPcts, fg \in SimpleGrowthPcts, em \in SimpleMarginPcts,
        ir \in SimpleInitialReinvPcts, fr \in SimpleFinalReinvPcts :
       LET r == simple_patterns(Pct(ig), Pct(fg), Pct(em), Pct(ir), Pct(fr), num_years)
       IN /\ growth_pattern' = r.growth_pattern
          /\ ebit_margin_pattern' = r.ebit_margin_pattern
          /\ reinv_rate_pattern' = r.reinv_rate_pattern
          /\ sidebar_error' = r.error
  /\ projection_mode' = "Simple"
  /\ pc' = "ready"
  /\ UNCHANGED <<growth_input, ebit_input, reinv_input>>
  /\ UNCHANGED <<elsewhere, widgetVars, infoVars, projection, valueVars, sensVars>>
  /\ UNCHANGED <<projection_dates, upside>>

\* lines 148-176, for the texts the user may have typed
AdvancedMode(texts) ==
  /\ pc = "sidebar"
  /\ \E t \in texts :
       LET gi == t[1]
           ei == t[2]
           ri == t[3]
           r == advanced_patterns(gi, ei, ri, num_years)
       IN /\ growth_input' = gi /\ ebit_input' = ei /\ reinv_input' = ri
          /\ growth_pattern' = r.growth_pattern
          /\ ebit_margin_pattern' = r.ebit_margin_pattern
          /\ reinv_rate_pattern' = r.reinv_rate_pattern
          /\ sidebar_error' = r.error
  /\ projection_mode' = "Advanced"
  /\ pc' = "ready"
  /\ UNCHANGED <<elsewhere, widgetVars, infoVars, projection, valueVars, sensVars>>
  /\ UNCHANGED <<projection_dates, upside>>

\* lines 206-214 and 429: the button was pressed and get_ltm_data returned
\* one of the given answers; a missing 'sharesOutstanding' arrives as 0
\* (line 41), a missing current price as 0 (line 429)
GetLtmDataFrom(answers) ==
  /\ pc = "ready"
  /\ \E a \in answers :
       /\ ltm_revenue' = a.ltm_revenue
       /\ shares_outstanding' = a.shares_outstanding
       /\ total_debt' = a.total_debt /\ total_cash' = a.total_cash
       /\ most_recent_date' = a.most_recent_date
       /\ current_price' = a.current_price
  /\ pc' = "fetched"
  /\ UNCHANGED <<elsewhere, widgetVars, patternVars, projection, valueVars, sensVars>>
  /\ UNCHANGED <<projection_dates, upside>>

GetLtmData == GetLtmDataFrom(ProviderAnswers)

\* lines 44-46 and 625-626: get_ltm_data caught an exception and returned Nones
GetLtmDataFails ==
  /\ pc = "ready"
  /\ pc' = "fetch_failed"
  /\ UNCHANGED <<elsewhere, widgetVars, patternVars, infoVars, projection, valueVars, sensVars>>
  /\ UNCHANGED <<projection_dates, upside>>

\* line 241
CreateProjectionDates ==
  /\ pc = "fetched"
  /\ projection_dates' = create_projection_dates(most_recent_date, num_years)
  /\ pc' = "dated"
  /\ UNCHANGED <<elsewhere, widgetVars, patternVars, infoVars, projection, valueVars, sensVars>>
  /\ UNCHANGED upside

\* lines 285-288; the dates become the frame's index and enter no column
ProjectFinancials ==
  /\ pc = "dated"
  /\ projection' = project_financials(ltm_revenue, growth_pattern, ebit_margin_pattern,
                                      reinv_rate_pattern, tax_rate)
  /\ pc' = "projected"
  /\ UNCHANGED <<elsewhere, widgetVars, patternVars, infoVars, valueVars, sensVars>>
  /\ UNCHANGED <<projection_dates, upside>>

\* mutant: the sum of present values is carried over from the run before
DiscountCashFlowsOnEarlierTotal ==
  /\ pc = "projected"
  /\ projection' = discount_cash_flows(projection, wacc)
  /\ total_pv_fcf' = RAdd(IF previous_run = Unbound THEN Zero ELSE previous_run.outputs[2][1],
                          RSum(projection'.DiscountedFCF))
  /\ pc' = "discounted"
  /\ UNCHANGED <<elsewhere, widgetVars, patternVars, infoVars, sensVars>>
  /\ UNCHANGED <<final_fcf, terminal_value, pv_terminal, firm_value, equity_value, share_price>>
  /\ UNCHANGED <<projection_dates, upside>>

\* lines 337-347: the primary discounting uses the point estimate `wacc`
DiscountCashFlows ==
  /\ pc = "projected"
  /\ projection' = discount_cash_flows(projection, wacc)
  /\ total_pv_fcf' = RSum(projection'.DiscountedFCF)
  /\ pc' = "discounted"
  /\ UNCHANGED <<elsewhere, widgetVars, patternVars, infoVars, sensVars>>
  /\ UNCHANGED <<final_fcf, terminal_value, pv_terminal, firm_value, equity_value, share_price>>
  /\ UNCHANGED <<projection_dates, upside>>

\* lines 379-382
TerminalValue ==
  /\ pc = "discounted"
  /\ final_fcf' = projection.FCF[Len(projection.FCF)]
  /\ LET r == calculate_terminal_value(final_fcf', wacc, terminal_growth, Len(projection.FCF))
     IN terminal_value' = r.terminal_value /\ pv_terminal' = r.pv_terminal
  /\ pc' = "terminal"
  /\ UNCHANGED <<elsewhere, widgetVars, patternVars, infoVars, projection, sensVars>>
  /\ UNCHANGED <<total_pv_fcf, firm_value, equity_value, share_price>>
  /\ UNCHANGED <<projection_dates, upside>>

\* lines 409-411, and lines 441-446: `upside` is bound only for a positive
\* current price
SharePrice ==
  /\ pc = "terminal"
  /\ LET r == calculate_share_price(total_pv_fcf, pv_terminal, total_debt, total_cash,
                                    shares_outstanding)
     IN /\ firm_value' = r.firm_value
        /\ equity_value' = r.equity_value
        /\ share_price' = r.share_price
  /\ upside' = IF RLess(Zero, current_price)
               THEN RMul(RDiv(RSub(share_price', current_price), current_price), <<100, 1>>)
               ELSE Unbound
  /\ pc' = "valued"
  /\ UNCHANGED <<elsewhere, widgetVars, patternVars, infoVars, projection, sensVars>>
  /\ UNCHANGED <<total_pv_fcf, final_fcf, terminal_value, pv_terminal>>
  /\ UNCHANGED projection_dates

\* wacc_values = [wacc_lower, wacc, wacc_upper], line 486
wacc_values == <<wacc_lower, wacc, wacc_upper>>

\* lines 490-510: one iteration of the loop over wacc_values
SensitivityPass ==
  /\ pc = "valued"
  /\ Len(share_prices) < 3
  /\ LET r == sensitivity_pass(projection, final_fcf, wacc_values[Len(share_prices) + 1],
                               terminal_growth, total_debt, total_cash, shares_outstanding)
     IN /\ projection' = r.projection
        /\ current_projection' = r.current_projection
        /\ share_prices' = Append(share_prices, r.current_share_price)
  /\ pc' = IF Len(share_prices) = 2 THEN "done" ELSE "valued"
  /\ UNCHANGED <<elsewhere, widgetVars, patternVars, infoVars, valueVars>>
  /\ UNCHANGED <<projection_dates, upside>>

\* lines 556-620: the summary table reads `upside` only for a positive
\* current price (line 591), the key insights read it always (line 617); the
\* NameError of an unbound `upside` is caught by the handler of lines 622-624
Summary ==
  /\ pc = "done"
  /\ pc' = IF upside = Unbound THEN "error" ELSE "finished"
  /\ UNCHANGED <<elsewhere, widgetVars, patternVars, infoVars, projection, valueVars, sensVars>>
  /\ UNCHANGED <<projection_dates, upside>>

Next ==
  \/ SimpleMode
  \/ AdvancedMode(RunTexts)
  \/ GetLtmData
  \/ GetLtmDataFails
  \/ CreateProjectionDates
  \/ ProjectFinancials
  \/ DiscountCashFlows
  \/ TerminalValue
  \/ SharePrice
  \/ SensitivityPass
  \/ Summary

Spec == Init /\ [][Next]_vars

----------------------------------------------------------------------------
(* Properties of the valuation run                                         *)

AfterSummary == pc \in {"finished", "error"}
AfterSharePrice == pc \in {"valued", "done"} \/ AfterSummary
AfterTerminalValue == pc = "terminal" \/ AfterSharePrice
AfterDiscounting == pc = "discounted" \/ AfterTerminalValue
AfterProjection == pc = "projected" \/ AfterDiscounting
AfterDates == pc = "dated" \/ AfterProjection

\* x <= y on floats: false when either side is nan
RLeq(x, y) == ~IsNaN(x) /\ ~IsNaN(y) /\ (x = y \/ RLess(x, y))

\* C1: calculate_terminal_value fails whenever wacc <= terminal_growth; it
\* never returns a terminal value in that case.  (The run reaches the state
\* after the call only when the call returned.)
C1_TerminalValueRejectsLowWacc ==
  RLeq(wacc, terminal_growth) => ~AfterTerminalValue

\* C2: calculate_share_price fails whenever shares_outstanding <= 0; it never
\* returns an implied share price in that case.
C2_SharePriceRejectsNoShares ==
  RLeq(shares_outstanding, Zero) => ~AfterSharePrice

\* the product over i = 1..t of (1 + growth_i)
RECURSIVE GrowthProduct(_, _)
GrowthProduct(growth, t) ==
  IF t = 0 THEN One ELSE RMul(RAdd(One, growth[t]), GrowthProduct(growth, t - 1))

\* C3: for every projected year t, revenue_t = LTMRevenue * product over
\* i = 1..t of (1 + growth_i); LTM 100 with growth [0.10, 0.10] gives 110, 121.
C3_RevenueCompounds ==
  /\ AfterProjection =>
       /\ Len(projection.Revenue) = num_years
       /\ \A t \in 1..num_years :
            projection.Revenue[t] = RMul(ltm_revenue, GrowthProduct(growth_pattern, t))
  /\ project_financials(<<100, 1>>, <<Pct(10), Pct(10)>>, <<One, One>>, <<Zero, Zero>>, Zero).Revenue
       = << <<110, 1>>, <<121, 1>> >>

\* a run whose growth is positive in two different years, so that compounding
\* and adding the growth rates differ
C3_Witness ==
  /\ pc = "projected"
  /\ \E i, j \in 1..num_years : i < j /\ RLess(Zero, growth_pattern[i]) /\ RLess(Zero, growth_pattern[j])

\* C4: EBIT_t = revenue_t * margin_t, NOPAT_t = EBIT_t * (1 - taxRate) with the
\* one tax rate in every year, FCF_t = NOPAT_t * (1 - reinvestmentRate_t); the
\* golden fixture gives ebit [480, 528], nopat [360, 396], fcf [252, 277.2].
C4_EbitNopatFcf ==
  /\ AfterProjection =>
       \A t \in 1..num_years :
         /\ projection.EBIT[t] = RMul(projection.Revenue[t], ebit_margin_pattern[t])
         /\ projection.NOPAT[t] = RMul(projection.EBIT[t], RSub(One, tax_rate))
         /\ projection.FCF[t] = RMul(projection.NOPAT[t], RSub(One, reinv_rate_pattern[t]))
  /\ LET golden == project_financials(<<1000, 1>>, <<Pct(20), Pct(10)>>, <<Pct(40), Pct(40)>>,
                                      <<Pct(30), Pct(30)>>, Pct(25))
     IN /\ golden.Revenue = << <<1200, 1>>, <<1320, 1>> >>
        /\ golden.EBIT = << <<480, 1>>, <<528, 1>> >>
        /\ golden.NOPAT = << <<360, 1>>, <<396, 1>> >>
        /\ golden.FCF = << <<252, 1>>, <<1386, 5>> >>

\* a run with a tax rate, a margin and a reinvestment rate that all bite
C4_Witness ==
  /\ pc = "projected"
  /\ tax_rate = Pct(50)
  /\ \E t \in 1..num_years :
       /\ ebit_margin_pattern[t] = Pct(50)
       /\ reinv_rate_pattern[t] = Pct(50)
       /\ RLess(Zero, projection.FCF[t])

\* C5: discountedFCF_t = FCF_t / (1 + wacc)^t with t = 1 for the first
\* projected year up to N for the last, at the point WACC.
C5_DiscountFromPeriodOne ==
  AfterDiscounting =>
    /\ Len(projection.DiscountedFCF) = num_years
    /\ \A t \in 1..num_years :
         projection.DiscountedFCF[t] = RDiv(projection.FCF[t], RPow(RAdd(One, wacc), t))

\* a discounted run whose point WACC is positive and differs from both ends
\* of the band, with a cash flow to discount
C5_Witness ==
  /\ pc = "discounted"
  /\ RLess(wacc_lower, wacc) /\ RLess(wacc, wacc_upper)
  /\ RLess(Zero, projection.FCF[1])
  /\ RLess(projection.DiscountedFCF[1], projection.FCF[1])

\* C6: for wacc > g, TV = FCF_N * (1 + g) / (wacc - g) and
\* PV(TV) = TV / (1 + wacc)^N; wacc 0.09, g 0.03, FCF 100 gives 103/0.06.
C6_GordonGrowth ==
  /\ (AfterTerminalValue /\ RLess(terminal_growth, wacc)) =>
       /\ terminal_value = RDiv(RMul(projection.FCF[num_years], RAdd(One, terminal_growth)),
                                RSub(wacc, terminal_growth))
       /\ pv_terminal = RDiv(terminal_value, RPow(RAdd(One, wacc), num_years))
  /\ calculate_terminal_value(<<100, 1>>, Pct(9), Pct(3), 1).terminal_value = <<5150, 3>>

C6_Witness ==
  /\ pc = "terminal"
  /\ RLess(Zero, terminal_growth) /\ RLess(terminal_growth, wacc)
  /\ RLess(Zero, pv_terminal) /\ RLess(pv_terminal, terminal_value)

\* C7: enterpriseValue = sum of discounted FCF + PV(TV), equityValue =
\* enterpriseValue - totalDebt + totalCash, sharePrice = equityValue /
\* sharesOutstanding, for every input with positive shares outstanding.
C7_EquityBridge ==
  (AfterSharePrice /\ RLess(Zero, shares_outstanding)) =>
    /\ firm_value = RAdd(RSum(projection.DiscountedFCF), pv_terminal)
    /\ equity_value = RAdd(RSub(firm_value, total_debt), total_cash)
    /\ share_price = RDiv(equity_value, shares_outstanding)

C7_Witness ==
  /\ pc = "valued"
  /\ RLess(Zero, shares_outstanding)
  /\ RLess(Zero, total_cash) /\ RLess(total_cash, total_debt)
  /\ IsFinite(share_price) /\ RLess(Zero, share_price)

\* the implied share price of one pass at discount rate w, from the primary
\* projection's FCF stream and the run's terminal growth, debt, cash and shares
PassPrice(w) ==
  LET n == num_years
      pv_fcf == RSum([t \in 1..n |-> RDiv(projection.FCF[t], RPow(RAdd(One, w), t))])
      tv == RDiv(RMul(projection.FCF[n], RAdd(One, terminal_growth)), RSub(w, terminal_growth))
      pv_tv == RDiv(tv, RPow(RAdd(One, w), n))
  IN RDiv(RAdd(RSub(RAdd(pv_fcf, pv_tv), total_debt), total_cash), shares_outstanding)

SensitivityStep == pc = "valued" /\ Len(share_prices') = Len(share_prices) + 1

\* C8: each of the three sensitivity passes discounts the primary projection's
\* FCF stream at its own rate and prices it with the same final-year FCF,
\* terminal growth, debt, cash and share count; a pass changes neither the
\* assumption vectors, the FCF values nor the primary projection's own
\* discounted column.
C8_SensitivityFrame ==
  [][SensitivityStep =>
       LET k == Len(share_prices')
           w == wacc_values[k]
       IN /\ projection' = projection
          /\ current_projection'.FCF = projection.FCF
          /\ current_projection'.RevenueGrowth = growth_pattern
          /\ current_projection'.EBITMargin = ebit_margin_pattern
          /\ current_projection'.ReinvRate = reinv_rate_pattern
          /\ \A t \in 1..num_years :
               current_projection'.DiscountedFCF[t]
                 = RDiv(projection.FCF[t], RPow(RAdd(One, w), t))
          /\ SubSeq(share_prices', 1, k - 1) = share_prices
          /\ share_prices'[k] = PassPrice(w)
          /\ UNCHANGED <<widgetVars, patternVars, infoVars, valueVars>>]_vars

\* all three passes done at three different rates, with different prices, and
\* the last pass's discounted column different from the primary one
C8_Witness ==
  /\ pc = "done"
  /\ RLess(wacc_lower, wacc) /\ RLess(wacc, wacc_upper)
  /\ IsFinite(share_prices[1]) /\ IsFinite(share_prices[2]) /\ IsFinite(share_prices[3])
  /\ share_prices[1] # share_prices[2] /\ share_prices[2] # share_prices[3]
  /\ current_projection.DiscountedFCF # projection.DiscountedFCF

BandAboveGrowth ==
  /\ RLess(terminal_growth, wacc_lower)
  /\ RLess(wacc_lower, wacc)
  /\ RLess(wacc, wacc_upper)

CashFlowsPositive ==
  /\ \A t \in 1..num_years : RLeq(Zero, projection.FCF[t])
  /\ \E t \in 1..num_years : RLess(Zero, projection.FCF[t])

----------------------------------------------------------------------------
(* The sidebar alone, over every horizon of the slider up to MaxYears and  *)
(* over texts that are short, long, malformed or left at their default.    *)

\* the largest horizon explored (the slider goes to 15)
MaxYears == 8

\* the text areas' pre-filled values, lines 153, 155, 157
growth_default ==
  <<"2", "0", ",", "1", "5", ",", "1", "5", ",", "1", "5", ",", "1", "0", ",", "1", "0", ",", "1", "0", ",", "8", ",", "8", ",", "6">>
ebit_default ==
  <<"4", "6", ",", "4", "6", ",", "4", "6", ",", "4", "6", ",", "4", "6", ",", "4", "6", ",", "4", "6", ",", "4", "6", ",", "4", "6", ",", "4", "6">>
reinv_default ==
  <<"4", "0", ",", "4", "0", ",", "3", "0", ",", "2", "0", ",", "2", "0", ",", "2", "0", ",", "2", "0", ",", "2", "0", ",", "2", "0", ",", "2", "0">>

\* value="..."[:num_years*3]
default_text(full, n) == SubSeq(full, 1, Min(Len(full), n * 3))

EntryDigits == <<"1", "2", "3", "4", "5", "6", "7", "8", "9">>

\* the i-th entry a user types: "10", " 20 ", "30", " 40 ", ...
TypedEntry(i) ==
  LET d == EntryDigits[((i - 1) % 9) + 1]
  IN IF i % 2 = 0 THEN <<" ", d, "0", " ">> ELSE <<d, "0">>

\* entries that are not numbers: empty, a letter, a blank
BadEntries == {<<>>, <<"x">>, <<" ">>}

\* k typed entries, the one at position bad (if any) replaced by tok
TypedText(k, bad, tok) == Join([i \in 1..k |-> IF i = bad THEN tok ELSE TypedEntry(i)])

TypedTexts(maxk) ==
  {TypedText(k, 0, <<>>) : k \in 1..maxk}
    \cup {TypedText(k[1], k[2], tok) :
            k \in {p \in (1..maxk) \X (1..maxk) : p[2] <= p[1]}, tok \in BadEntries}

\* one text area explored in full, the other two left at their default or
\* typed short, well-formed or not
SideTexts(full, n) == {default_text(full, n), TypedText(2, 0, <<>>), TypedText(2, 2, <<"x">>)}
FocusTexts(full, n) == TypedTexts(n + 1) \cup {default_text(full, n)}
InputTexts(n) ==
  (FocusTexts(growth_default, n) \X SideTexts(ebit_default, n) \X SideTexts(reinv_default, n))
    \cup (SideTexts(growth_default, n) \X FocusTexts(ebit_default, n) \X SideTexts(reinv_default, n))
    \cup (SideTexts(growth_default, n) \X SideTexts(ebit_default, n) \X FocusTexts(reinv_default, n))

\* the other widgets at their default values (lines 181-196)
InitInput ==
  /\ pc = "sidebar"
  /\ num_years \in MinYears..MaxYears
  /\ tax_rate = Pct(19)
  /\ terminal_growth = Pct(3)
  /\ wacc_lower = Norm(796, 10000) /\ wacc = Norm(925, 10000) /\ wacc_upper = Norm(1054, 10000)
  /\ wacc_input_mode = "Manual"
  /\ InitRun
  /\ WaccDefaults
  /\ HistNotRun

NextInput ==
  \/ SimpleMode
  \/ AdvancedMode(InputTexts(num_years))

SpecInput == InitInput /\ [][NextInput]_vars

\* every entry of the text is a number
AllEntriesValid(text) ==
  \A i \in 1..Len(split(text)) : ~float_raises(strip(split(text)[i]))

\* the values supplied in a text, in order
SuppliedValues(text) ==
  LET e == split(text) IN [i \in 1..Len(e) |-> Pct(float(strip(e[i])))]

\* pattern has n entries; if the text supplied k valid values, entry t is the
\* t-th supplied value for t <= k and the k-th supplied value beyond
PaddedOrCut(pattern, text, n) ==
  /\ Len(pattern) = n
  /\ AllEntriesValid(text) =>
       LET v == SuppliedValues(text)
       IN \A t \in 1..n : pattern[t] = IF t <= Len(v) THEN v[t] ELSE v[Len(v)]

\* C10: after Advanced-mode input handling each of the three assumption
\* vectors has exactly N entries; a vector supplied with k < N valid values
\* keeps them in order and repeats the k-th for years k+1..N, and one supplied
\* with more than N values keeps its first N.
C10_VectorsPaddedOrCut ==
  (pc = "ready" /\ projection_mode = "Advanced") =>
    /\ PaddedOrCut(growth_pattern, growth_input, num_years)
    /\ PaddedOrCut(ebit_margin_pattern, ebit_input, num_years)
    /\ PaddedOrCut(reinv_rate_pattern, reinv_input, num_years)

\* the values of the entries of a text that are numbers, in order
ValidValues(text) ==
  LET e == SelectSeq(split(text), LAMBDA x : ~float_raises(strip(x)))
  IN [i \in 1..Len(e) |-> Pct(float(strip(e[i])))]

\* the supplied values for the first years and the last of them for the rest
RepeatLast(text, n) ==
  LET v == ValidValues(text)
  IN [t \in 1..n |-> IF t <= Len(v) THEN v[t] ELSE v[Len(v)]]

\* C11: a malformed or incomplete assumption vector (a trailing comma, an empty
\* or non-numeric entry, the pre-filled default text cut to num_years*3
\* characters) is completed by repeating the last supplied value; it is never
\* replaced by fixed default constants, and each vector depends on its own text
\* only, so a defect in one vector does not change the other two.
C11_MalformedVectorRepeatsLast ==
  (pc = "ready" /\ projection_mode = "Advanced") =>
    /\ Len(ValidValues(growth_input)) > 0 => growth_pattern = RepeatLast(growth_input, num_years)
    /\ Len(ValidValues(ebit_input)) > 0 => ebit_margin_pattern = RepeatLast(ebit_input, num_years)
    /\ Len(ValidValues(reinv_input)) > 0 => reinv_rate_pattern = RepeatLast(reinv_input, num_years)

DigitSeq == <<"0", "1", "2", "3", "4", "5", "6", "7", "8", "9">>

\* the decimal digits of a natural number
RECURSIVE DigitsOf(_)
DigitsOf(k) ==
  IF k < 10 THEN <<DigitSeq[k + 1]>> ELSE Append(DigitsOf(k \div 10), DigitSeq[(k % 10) + 1])

\* the text that supplies every year of a vector of whole percentages
FullySpecifiedText(pattern) ==
  Join([t \in 1..Len(pattern) |-> DigitsOf((pattern[t][1] * 100) \div pattern[t][2])])

\* the text was well formed and supplied fewer than n values
WasPadded(text, n) == AllEntriesValid(text) /\ Len(split(text)) < n

\* C12: whenever an assumption vector was padded, what the sidebar hands to the
\* projection (the three vectors and the error condition) differs from what it
\* hands over when the same final values are supplied for every year.
C12_PaddingSurfaced ==
  (/\ pc = "ready" /\ projection_mode = "Advanced" /\ ~sidebar_error
   /\ \/ WasPadded(growth_input, num_years)
      \/ WasPadded(ebit_input, num_years)
      \/ WasPadded(reinv_input, num_years)) =>
    advanced_patterns(FullySpecifiedText(growth_pattern), FullySpecifiedText(ebit_margin_pattern),
                      FullySpecifiedText(reinv_rate_pattern), num_years)
      # [growth_pattern |-> growth_pattern, ebit_margin_pattern |-> ebit_margin_pattern,
         reinv_rate_pattern |-> reinv_rate_pattern, error |-> sidebar_error]

----------------------------------------------------------------------------
(* The pure functions of src/pages/1_WACC_Calculator.py                     *)

UpperCase == <<"A", "B", "C", "D", "E", "F", "G", "H", "I", "J", "K", "L", "M",
               "N", "O", "P", "Q", "R", "S", "T", "U", "V", "W", "X", "Y", "Z">>
LowerCase == <<"a", "b", "c", "d", "e", "f", "g", "h", "i", "j", "k", "l", "m",
               "n", "o", "p", "q", "r", "s", "t", "u", "v", "w", "x", "y", "z">>

\* str.lower(): every upper-case letter becomes its lower-case letter, every
\* other character stays
lower(x) ==
  [i \in 1..Len(x) |->
     IF \E k \in 1..Len(UpperCase) : UpperCase[k] = x[i]
     THEN LowerCase[CHOOSE k \in 1..Len(UpperCase) : UpperCase[k] = x[i]]
     ELSE x[i]]

\* one row of the table; the numbers are the literals of lines 18-32
Entry(greater_than, less_than, rating, spread) ==
  [GreaterThan |-> greater_than, LessThan |-> less_than, Rating |-> rating, Spread |-> spread]

\* Credit spreads lookup table, lines 17-33
credit_spreads ==
  << Entry(<<-100000, 1>>, Norm(199999, 1000000), <<"D", "2", "/", "D">>, Norm(1900, 100)),
     Entry(Norm(2, 10), Norm(649999, 1000000), <<"C", "2", "/", "C">>, Norm(1550, 100)),
     Entry(Norm(65, 100), Norm(799999, 1000000), <<"C", "a", "2", "/", "C", "C">>, Norm(1010, 100)),
     Entry(Norm(8, 10), Norm(1249999, 1000000), <<"C", "a", "a", "/", "C", "C", "C">>, Norm(728, 100)),
     Entry(Norm(125, 100), Norm(1499999, 1000000), <<"B", "3", "/", "B", "-">>, Norm(442, 100)),
     Entry(Norm(15, 10), Norm(1749999, 1000000), <<"B", "2", "/", "B">>, Norm(300, 100)),
     Entry(Norm(175, 100), Norm(1999999, 1000000), <<"B", "1", "/", "B", "+">>, Norm(261, 100)),
     Entry(<<2, 1>>, Norm(22499999, 10000000), <<"B", "a", "2", "/", "B", "B">>, Norm(183, 100)),
     Entry(Norm(225, 100), Norm(249999, 100000), <<"B", "a", "1", "/", "B", "B", "+">>, Norm(155, 100)),
     Entry(Norm(25, 10), Norm(2999999, 1000000), <<"B", "a", "a", "2", "/", "B", "B", "B">>, Norm(120, 100)),
     Entry(<<3, 1>>, Norm(4249999, 1000000), <<"A", "3", "/", "A", "-">>, Norm(95, 100)),
     Entry(Norm(425, 100), Norm(5499999, 1000000), <<"A", "2", "/", "A">>, Norm(85, 100)),
     Entry(Norm(55, 10), Norm(6499999, 1000000), <<"A", "1", "/", "A", "+">>, Norm(77, 100)),
     Entry(Norm(65, 10), Norm(8499999, 1000000), <<"A", "a", "2", "/", "A", "A">>, Norm(60, 100)),
     Entry(Norm(85, 10), <<100000, 1>>, AaaAAA, Norm(45, 100)) >>

\* the rows whose label is the rating, both trimmed and lower-cased (line 47)
MatchingEntries(rating, table) ==
  {i \in 1..Len(table) : lower(strip(table[i].Rating)) = lower(strip(rating))}

\* mutant: the labels are compared as typed
get_credit_spread_as_typed(rating, table) ==
  LET m == {i \in 1..Len(table) : table[i].Rating = rating}
  IN IF m = {} THEN NaN
     ELSE RDiv(table[CHOOSE i \in m : \A j \in m : i <= j].Spread, <<100, 1>>)

\* mutant: an unmatched rating gets the spread of the table's last row
get_credit_spread_placeholder(rating, table) ==
  LET m == MatchingEntries(rating, table)
  IN IF m = {} THEN RDiv(table[Len(table)].Spread, <<100, 1>>)
     ELSE RDiv(table[CHOOSE i \in m : \A j \in m : i <= j].Spread, <<100, 1>>)

\* lines 35-50: the first matching row's spread / 100; without a match a
\* warning is shown and np.nan is returned
get_credit_spread(rating, table) ==
  LET m == MatchingEntries(rating, table)
  IN IF m = {} THEN NaN
     ELSE RDiv(table[CHOOSE i \in m : \A j \in m : i <= j].Spread, <<100, 1>>)

\* info.get(key, default)
info_get(d, key, default) == IF key \in DOMAIN d THEN d[key] ELSE default

\* mutant: debt over equity instead of debt over capital
debt_weight_over_equity(mc, td) == RDiv(td, mc)

\* w_E = market_cap / (market_cap + total_debt), line 144
equity_weight(mc, td) == RDiv(mc, RAdd(mc, td))

\* w_D = total_debt / (market_cap + total_debt), line 145
debt_weight(mc, td) == RDiv(td, RAdd(mc, td))

\* market_cap and total_debt are Python floats: dividing by 0.0 raises
\* ZeroDivisionError (lines 144-145)
weights_raise(mc, td) == RAdd(mc, td) = Zero

\* ax.pie (line 153) raises ValueError for a negative wedge size
pie_raises(sizes) == \E i \in 1..Len(sizes) : RLess(sizes[i], Zero)

\* Series.pct_change().dropna(): p[t+1] / p[t] - 1, the first (undefined) entry dropped
pct_change(prices) ==
  [t \in 1..(Len(prices) - 1) |-> RSub(RDiv(<<prices[t + 1], 1>>, <<prices[t], 1>>), One)]

\* returns - rf, element by element
excess(returns, r) == [t \in 1..Len(returns) |-> RSub(returns[t], r)]

\* A price series is a record of its row labels (the months, numbered) and
\* its closes; a month the provider has no row for is absent from both.
Closes(first, prices) ==
  [index |-> [i \in 1..Len(prices) |-> first + i - 1], values |-> prices]

\* series.pct_change().dropna() - rf, lines 88 and 89: every row but the
\* first keeps its label and carries the return since the row before it
excess_returns(series, r) ==
  [index |-> IF Len(series.index) = 0 THEN <<>> ELSE Tail(series.index),
   values |-> excess(pct_change(series.values), r)]

Mean(s) == RDiv(RSum(s), <<Len(s), 1>>)

\* the sum over t of (x[t] - mean x) * (y[t] - mean y)
CrossDeviation(x, y) ==
  RSum([t \in 1..Len(x) |-> RMul(RSub(x[t], Mean(x)), RSub(y[t], Mean(y)))])

\* sm.add_constant with has_constant='skip': no column is added when the
\* regressor is itself a non-zero constant
add_constant_skips(x) ==
  /\ Len(x) > 0
  /\ \A t \in 1..Len(x) : x[t] = x[1]
  /\ x[1] # Zero

\* lines 76-100.  The returned record is the tuple (beta, results,
\* stock_returns, index_returns) or the exception the call raises, with the
\* two series as sm.OLS received them:
\*  - series whose row labels differ (statsmodels compares the indices of
\*    endog and exog) or without any return: the fit raises ValueError;
\*  - a constant non-zero regressor: add_constant adds nothing, the fit has one
\*    parameter and results.params.iloc[1] raises IndexError;
\*  - otherwise the least-squares slope (0 for a regressor that is all zero),
\*    whatever the number of observations: the sample size is not looked at.
\* results keeps what conf_int needs: the residual degrees of freedom, the
\* residual sum of squares and the regressor's sum of squared deviations.
calculate_beta(stock_prices, index_prices, r) ==
  LET stock_r == excess_returns(stock_prices, r)
      index_r == excess_returns(index_prices, r)
      n == Len(index_r.values)
      sxx == CrossDeviation(index_r.values, index_r.values)
      sxy == CrossDeviation(index_r.values, stock_r.values)
      syy == CrossDeviation(stock_r.values, stock_r.values)
      slope == IF sxx = Zero THEN Zero ELSE RDiv(sxy, sxx)
  IN IF stock_r.index # index_r.index \/ n = 0
     THEN [raised |-> "ValueError", stock_returns |-> stock_r, index_returns |-> index_r]
     ELSE IF add_constant_skips(index_r.values)
     THEN [raised |-> "IndexError", stock_returns |-> stock_r, index_returns |-> index_r]
     ELSE [raised |-> "", beta |-> slope,
           results |-> [nobs |-> n,
                        df_resid |-> n - (IF sxx = Zero THEN 1 ELSE 2),
                        ssr |-> RSub(syy, RMul(slope, sxy)),
                        sxx |-> sxx],
           stock_returns |-> stock_r, index_returns |-> index_r]

\* results.conf_int(alpha=0.05), the row of the slope (lines 173-175): slope
\* -/+ t quantile * standard error.  Without residual degrees of freedom the
\* quantile and the error variance are nan; with an exact fit the standard
\* error is 0; otherwise the half width is positive (its value, a square root
\* times a t quantile, is an input of the model).
conf_int(results, slope, half_width) ==
  IF results.df_resid <= 0 THEN <<NaN, NaN>>
  ELSE IF results.ssr = Zero \/ results.sxx = Zero THEN <<slope, slope>>
  ELSE <<RSub(slope, half_width), RAdd(slope, half_width)>>

\* cost_of_equity = rf + beta * emrp, lines 181, 237, 238
capm(r, b, premium) == RAdd(r, RMul(b, premium))

\* mutant: the after-tax factor is applied to the equity part
wacc_formula_tax_on_equity(we, ke, wd, kd, t) ==
  RAdd(RMul(RMul(we, ke), RSub(One, t)), RMul(wd, kd))

\* w_E * kE + w_D * cost_of_debt * (1 - marg_tax_rate), lines 234, 240, 241
wacc_formula(we, ke, wd, kd, t) ==
  RAdd(RMul(we, ke), RMul(RMul(wd, kd), RSub(One, t)))

----------------------------------------------------------------------------
(* The WACC page as a state machine: the sidebar, then the run behind the  *)
(* "Calculate WACC" button, section by section.  The DCF page stays idle.  *)

\* what the user types as the firm's credit rating
RatingInputs ==
  { AaaAAA,
    <<" ", "a", "a", "a", "/", "a", "a", "a", " ">>,
    <<"A", "A", "A", "/", "A", "A", "A">>,
    <<"A", "2", "/", "A">>,
    <<"a", "2", "/", "A", " ">>,
    <<"B", "3", "/", "B", "-">>,
    <<"A", "A", "A">>,
    <<"A", "a", "a", "/", " ", "A", "A", "A">>,
    <<>> }

RiskFreeRates == {Zero, Norm(45, 1000)}
RiskPremiums == {Zero, Pct(5)}
MarginalTaxRates == {Zero, Pct(25)}
\* 1000000 if scale_option == "Millions" else 1000000000, line 118
ScaleFactors == {1000000, 1000000000}

\* ticker.info as the provider may return it: both keys, one key, none;
\* positive, zero-sum and negative amounts
Infos ==
  { ("marketCap" :> 3000000) @@ ("totalDebt" :> 1000000),
    ("marketCap" :> 4000000),
    ("totalDebt" :> 2000000),
    <<>>,
    ("marketCap" :> 1000000) @@ ("totalDebt" :> -1000000),
    ("marketCap" :> -1000000) @@ ("totalDebt" :> -3000000),
    ("marketCap" :> 3000000) @@ ("totalDebt" :> -1000000),
    ("marketCap" :> 1000000) @@ ("totalDebt" :> -3000000) }

\* monthly closes <<stock, index>>: no price at all, one to three returns,
\* a regressor with constant returns, a stock listed one month after the
\* index series begins, and a month without a row in either series
PriceData ==
  { << Closes(1, <<>>), Closes(1, <<>>) >>,
    << Closes(1, <<1, 2>>), Closes(1, <<2, 4>>) >>,
    << Closes(1, <<1, 4, 1>>), Closes(1, <<2, 4, 2>>) >>,
    << Closes(1, <<2, 1, 2>>), Closes(1, <<2, 4, 2>>) >>,
    << Closes(1, <<1, 2, 4>>), Closes(1, <<1, 2, 4>>) >>,
    << Closes(1, <<1, 4, 1, 4>>), Closes(1, <<2, 4, 2, 4>>) >>,
    << Closes(1, <<1, 2, 2, 4>>), Closes(1, <<2, 4, 2, 1>>) >>,
    << Closes(1, <<4, 2, 2, 1>>), Closes(1, <<2, 4, 2, 1>>) >>,
    << Closes(2, <<1, 2, 2>>), Closes(1, <<2, 4, 2, 1>>) >>,
    << [index |-> <<1, 2, 4, 5>>, values |-> <<1, 2, 2, 4>>],
       [index |-> <<1, 3, 4, 5>>, values |-> <<2, 4, 2, 1>>] >> }

\* half widths of the slope's confidence interval when the fit is not exact
HalfWidths == {Norm(1, 2), <<2, 1>>}

InitWacc ==
  /\ pc = "sidebar"
  /\ num_years = MinYears
  /\ tax_rate = Pct(19)
  /\ terminal_growth = Pct(3)
  /\ wacc_lower = Norm(796, 10000) /\ wacc = Norm(925, 10000) /\ wacc_upper = Norm(1054, 10000)
  /\ wacc_input_mode = "Manual"
  /\ InitRun
  /\ wacc_pc = "sidebar"
  /\ rf \in RiskFreeRates
  /\ firm_rating \in RatingInputs
  /\ emrp \in RiskPremiums
  /\ marg_tax_rate \in MarginalTaxRates
  /\ scale_factor \in ScaleFactors
  /\ ticker_symbol = "MSFT"
  /\ now = 1
  /\ WaccNotRun
  /\ HistNotRun

\* lines 123-127: the button was pressed and get_stock_data returned data
GetStockDataFrom(infos, data) ==
  /\ wacc_pc = "sidebar"
  /\ info' \in infos
  /\ \E d \in data : stock_data' = d[1] /\ index_data' = d[2]
  /\ wacc_pc' = "fetched"
  /\ UNCHANGED <<dcfVars, histVars, waccWidgetVars, weightVars, betaVars, returnVars, debtVars,
                 waccResultVars, caught>>

GetStockData == GetStockDataFrom(Infos, PriceData)

\* mutant: a failed fetch also discards what an earlier run saved
GetStockDataFailsAndForgets ==
  /\ wacc_pc = "sidebar"
  /\ wacc_pc' = "fetch_failed"
  /\ wacc_results' = Unbound
  /\ UNCHANGED <<dcfVars, histVars, waccWidgetVars, waccDataVars, weightVars, betaVars,
                 returnVars, debtVars, wacc_lower_ci, wacc_point, wacc_upper_ci, caught>>

\* lines 72-74 and 317-318: get_stock_data caught an exception and returned Nones
GetStockDataFails ==
  /\ wacc_pc = "sidebar"
  /\ wacc_pc' = "fetch_failed"
  /\ UNCHANGED <<dcfVars, histVars, waccWidgetVars, waccDataVars, weightVars, betaVars,
                 returnVars, debtVars, waccResultVars, caught>>

\* lines 129-158, section 1: amounts, weights, pie chart
Weights ==
  /\ wacc_pc = "fetched"
  /\ market_cap' = RDiv(<<info_get(info, "marketCap", 0), 1>>, <<scale_factor, 1>>)
  /\ wacc_total_debt' = RDiv(<<info_get(info, "totalDebt", 0), 1>>, <<scale_factor, 1>>)
  /\ IF weights_raise(market_cap', wacc_total_debt')
     THEN /\ UNCHANGED <<w_E, w_D>>
          /\ caught' = "ZeroDivisionError"
          /\ wacc_pc' = "error"
     ELSE /\ w_E' = equity_weight(market_cap', wacc_total_debt')
          /\ w_D' = debt_weight(market_cap', wacc_total_debt')
          /\ IF pie_raises(<<w_E', w_D'>>)
             THEN caught' = "ValueError" /\ wacc_pc' = "error"
             ELSE caught' = caught /\ wacc_pc' = "weights"
  /\ UNCHANGED <<dcfVars, histVars, waccWidgetVars, waccDataVars, betaVars, returnVars, debtVars,
                 waccResultVars>>

\* lines 160-206, section 2: beta, its confidence interval, cost of equity
CostOfEquity ==
  /\ wacc_pc = "weights"
  /\ \E r \in {calculate_beta(stock_data, index_data, rf)} :
       /\ stock_returns' = r.stock_returns /\ index_returns' = r.index_returns
       /\ IF r.raised # ""
          THEN /\ caught' = r.raised
               /\ wacc_pc' = "error"
               /\ UNCHANGED betaVars
          ELSE /\ beta' = r.beta
               /\ \E h \in HalfWidths :
                    LET beta_ci == conf_int(r.results, r.beta, h)
                    IN beta_lower_ci' = beta_ci[1] /\ beta_upper_ci' = beta_ci[2]
               /\ cost_of_equity' = capm(rf, r.beta, emrp)
               /\ caught' = caught
               /\ wacc_pc' = "cost_of_equity"
  /\ UNCHANGED <<dcfVars, histVars, waccWidgetVars, waccDataVars, weightVars, debtVars, waccResultVars>>

\* lines 208-228, section 3: the spread (nan formats as 'nan%') and cost of debt
CostOfDebt ==
  /\ wacc_pc = "cost_of_equity"
  /\ credit_spread' = get_credit_spread(firm_rating, credit_spreads)
  /\ cost_of_debt' = RAdd(rf, credit_spread')
  /\ wacc_pc' = "cost_of_debt"
  /\ UNCHANGED <<dcfVars, histVars, waccWidgetVars, waccDataVars, weightVars, betaVars, returnVars,
                 waccResultVars, caught>>

\* lines 230-250, section 4: the three WACC values and the session-state save
WaccResults ==
  /\ wacc_pc = "cost_of_debt"
  /\ wacc_point' = wacc_formula(w_E, cost_of_equity, w_D, cost_of_debt, marg_tax_rate)
  /\ LET cost_of_equity_lower_ci == capm(rf, beta_lower_ci, emrp)
         cost_of_equity_upper_ci == capm(rf, beta_upper_ci, emrp)
     IN /\ wacc_lower_ci' = wacc_formula(w_E, cost_of_equity_lower_ci, w_D, cost_of_debt, marg_tax_rate)
        /\ wacc_upper_ci' = wacc_formula(w_E, cost_of_equity_upper_ci, w_D, cost_of_debt, marg_tax_rate)
  /\ wacc_results' = [wacc_lower |-> wacc_lower_ci', wacc |-> wacc_point',
                      wacc_upper |-> wacc_upper_ci',
                      ticker |-> ticker_symbol, timestamp |-> now]
  /\ wacc_pc' = "saved"
  /\ UNCHANGED <<dcfVars, histVars, waccWidgetVars, waccDataVars, weightVars, betaVars, returnVars,
                 debtVars, caught>>

NextWacc ==
  \/ GetStockData
  \/ GetStockDataFails
  \/ Weights
  \/ CostOfEquity
  \/ CostOfDebt
  \/ WaccResults

SpecWacc == InitWacc /\ [][NextWacc]_vars

----------------------------------------------------------------------------
(* Properties of the WACC page                                             *)

AfterWeights == wacc_pc \in {"weights", "cost_of_equity", "cost_of_debt", "saved"}
AfterCostOfEquity == wacc_pc \in {"cost_of_equity", "cost_of_debt", "saved"}
AfterCostOfDebt == wacc_pc \in {"cost_of_debt", "saved"}

\* the same rating up to case and surrounding blanks
SameLabel(a, b) == lower(strip(a)) = lower(strip(b))

\* the table with every ratio bound replaced
WithBounds(table, lo, hi) ==
  [i \in 1..Len(table) |-> [table[i] EXCEPT !.GreaterThan = lo, !.LessThan = hi]]

\* C13: get_credit_spread matches the rating label exactly after trimming
\* surrounding whitespace and ignoring case on both sides and returns that
\* entry's spread / 100; inputs that differ only in case or surrounding
\* whitespace get the same spread; the ratio bounds never influence the result.
C13_SpreadByLabel ==
  AfterCostOfDebt =>
    /\ \A i \in 1..Len(credit_spreads) :
         SameLabel(credit_spreads[i].Rating, firm_rating)
           => credit_spread = RDiv(credit_spreads[i].Spread, <<100, 1>>)
    /\ \A other \in RatingInputs :
         SameLabel(other, firm_rating)
           => get_credit_spread(other, credit_spreads) = credit_spread
    /\ get_credit_spread(firm_rating, WithBounds(credit_spreads, Zero, Zero)) = credit_spread
    /\ get_credit_spread(firm_rating, WithBounds(credit_spreads, <<-1, 1>>, <<9, 1>>)) = credit_spread

\* a rating typed in another case and with blanks around it found its entry
C13_Witness ==
  /\ wacc_pc = "cost_of_debt"
  /\ firm_rating # AaaAAA /\ strip(firm_rating) # firm_rating
  /\ SameLabel(firm_rating, AaaAAA)
  /\ credit_spread = Norm(45, 10000)

\* C14: when no entry's label matches, get_credit_spread returns a not-found
\* signal that differs from every spread of the table and from every finite
\* number, never a placeholder spread.
C14_NotFoundSignal ==
  (AfterCostOfDebt /\ MatchingEntries(firm_rating, credit_spreads) = {}) =>
    /\ ~IsFinite(credit_spread)
    /\ \A i \in 1..Len(credit_spreads) :
         /\ credit_spread # RDiv(credit_spreads[i].Spread, <<100, 1>>)
         /\ credit_spread # credit_spreads[i].Spread

\* a non-empty rating that is in no row of the table was looked up
C14_Witness ==
  /\ wacc_pc = "cost_of_debt"
  /\ Len(firm_rating) > 0
  /\ MatchingEntries(firm_rating, credit_spreads) = {}
  /\ credit_spread = NaN

\* C15: the cost-of-debt step fails when the rating lookup fails: for an
\* unmatched rating the run produces no cost of debt and no WACC estimate, and
\* nothing is saved to wacc_results.
C15_UnmatchedRatingAborts ==
  MatchingEntries(firm_rating, credit_spreads) = {} =>
    /\ cost_of_debt = Unbound
    /\ wacc_lower_ci = Unbound /\ wacc_point = Unbound /\ wacc_upper_ci = Unbound
    /\ wacc_results = Unbound

\* C16: for every market capitalization and total debt whose sum is positive,
\* the derived equity weight and debt weight sum to 1.
C16_WeightsSumToOne ==
  (w_E # Unbound /\ RLess(Zero, RAdd(market_cap, wacc_total_debt))) =>
    RAdd(w_E, w_D) = One

\* both weights are proper fractions of a positive capital base
C16_Witness ==
  /\ wacc_pc = "weights"
  /\ RLess(Zero, RAdd(market_cap, wacc_total_debt))
  /\ RLess(Zero, w_E) /\ RLess(w_E, One)
  /\ RLess(Zero, w_D) /\ RLess(w_D, One)

\* C17: a capital base marketCap + totalDebt that is zero or negative is a
\* fatal input error: the run aborts before any weight, cost of capital or
\* WACC is produced, and wacc_results is not written.
C17_NonPositiveCapitalAborts ==
  (market_cap # Unbound /\ RLeq(RAdd(market_cap, wacc_total_debt), Zero)) =>
    /\ wacc_pc = "error"
    /\ w_E = Unbound /\ w_D = Unbound
    /\ cost_of_equity = Unbound /\ cost_of_debt = Unbound
    /\ wacc_lower_ci = Unbound /\ wacc_point = Unbound /\ wacc_upper_ci = Unbound
    /\ wacc_results = Unbound

\* C18: the three WACC values are each wE*kE + wD*kD*(1-t) where kE = rf +
\* beta*erp is taken at beta's lower bound, point estimate and upper bound,
\* while wE, wD, kD and t are the same in all three.
C18_ThreeWaccValues ==
  wacc_pc = "saved" =>
    LET after_tax_debt == RMul(RMul(w_D, cost_of_debt), RSub(One, marg_tax_rate))
        kE(b) == RAdd(rf, RMul(b, emrp))
    IN /\ cost_of_equity = kE(beta)
       /\ wacc_lower_ci = RAdd(RMul(w_E, kE(beta_lower_ci)), after_tax_debt)
       /\ wacc_point = RAdd(RMul(w_E, kE(beta)), after_tax_debt)
       /\ wacc_upper_ci = RAdd(RMul(w_E, kE(beta_upper_ci)), after_tax_debt)
       /\ wacc_results.wacc_lower = wacc_lower_ci
       /\ wacc_results.wacc = wacc_point
       /\ wacc_results.wacc_upper = wacc_upper_ci

\* a saved run with a proper interval, both kinds of capital, a premium, a
\* tax rate and a matched rating, whose three values differ
C18_Witness ==
  /\ wacc_pc = "saved"
  /\ RLess(beta_lower_ci, beta) /\ RLess(beta, beta_upper_ci)
  /\ RLess(Zero, w_E) /\ RLess(Zero, w_D)
  /\ RLess(Zero, emrp) /\ RLess(Zero, marg_tax_rate) /\ RLess(Zero, rf)
  /\ IsFinite(cost_of_debt)
  /\ RLess(wacc_lower_ci, wacc_point) /\ RLess(wacc_point, wacc_upper_ci)

\* C19: for every beta confidence interval with beta_lower <= beta <=
\* beta_upper, the WACC values saved to wacc_results satisfy
\* wacc_lower <= wacc <= wacc_upper.
C19_SavedBandOrdered ==
  (wacc_pc = "saved" /\ RLeq(beta_lower_ci, beta) /\ RLeq(beta, beta_upper_ci)) =>
    /\ RLeq(wacc_results.wacc_lower, wacc_results.wacc)
    /\ RLeq(wacc_results.wacc, wacc_results.wacc_upper)

\* the row labels two series have in common
CommonPeriods(a, b) ==
  {a.index[i] : i \in 1..Len(a.index)} \cap {b.index[i] : i \in 1..Len(b.index)}

\* the number of return observations the two series have in common
AlignedObservations ==
  Cardinality(CommonPeriods(excess_returns(stock_data, rf), excess_returns(index_data, rf)))

\* C20: calculate_beta fails with an InsufficientData condition when fewer
\* than 3 aligned return observations are available; it returns no beta and no
\* confidence interval in that case.
C20_BetaNeedsThreeObservations ==
  (wacc_pc \notin {"sidebar", "fetch_failed"} /\ AlignedObservations < 3) =>
    /\ beta = Unbound
    /\ beta_lower_ci = Unbound /\ beta_upper_ci = Unbound

\* C21: the target and benchmark return series passed to the regression cover
\* exactly the same periods: a period missing in either series is dropped
\* from both, so the i-th target return and the i-th benchmark return belong
\* to the same date and the two series have equal length.
C21_ReturnSeriesAligned ==
  stock_returns # Unbound =>
    /\ Len(stock_returns.values) = Len(index_returns.values)
    /\ stock_returns.index = index_returns.index
    /\ \A i \in 1..Len(stock_returns.index) :
         stock_returns.index[i] \in CommonPeriods(stock_data, index_data)

----------------------------------------------------------------------------
(* One session: the WACC page's button pressed several times, the sidebar  *)
(* changed in between, and then the DCF page opened.  st.session_state is  *)
(* all that one script run leaves to the next.                             *)

MaxPresses == 2

WaccInputModes == {"Manual", "Use Phase 1 Estimates"}

SessionRatings == {AaaAAA, <<"A", "A", "A">>}
Tickers == {"MSFT", "AAPL"}
SessionInfos == { ("marketCap" :> 3000000) @@ ("totalDebt" :> 1000000), <<>> }
SessionPriceData ==
  { << Closes(1, <<1, 2, 2, 4>>), Closes(1, <<2, 4, 2, 1>>) >>,
    << Closes(2, <<1, 2, 2>>), Closes(1, <<2, 4, 2, 1>>) >> }

InitSession ==
  /\ pc = "sidebar"
  /\ num_years = MinYears
  /\ tax_rate = Pct(19)
  /\ terminal_growth = Pct(3)
  /\ wacc_lower = Norm(796, 10000) /\ wacc = Norm(925, 10000) /\ wacc_upper = Norm(1054, 10000)
  /\ wacc_input_mode \in WaccInputModes
  /\ InitRun
  /\ wacc_pc = "sidebar"
  /\ rf = Norm(45, 1000) /\ emrp = Pct(5) /\ marg_tax_rate = Pct(25)
  /\ scale_factor = 1000000
  /\ firm_rating \in SessionRatings
  /\ ticker_symbol = "MSFT"
  /\ now = 1
  /\ WaccNotRun
  /\ HistNotRun

\* the WACC page's script is not running
WaccAtRest == wacc_pc \in {"saved", "error", "fetch_failed"}

\* The button is pressed again, the rating and the ticker typed anew: the
\* script runs from its first line, the names of the earlier run are gone
\* and st.session_state is as the earlier runs left it.  The session visits
\* the WACC page before it opens the DCF page.
CalculateAgain ==
  /\ WaccAtRest
  /\ pc = "sidebar"
  /\ now < MaxPresses
  /\ now' = now + 1
  /\ firm_rating' \in SessionRatings
  /\ ticker_symbol' \in Tickers
  /\ wacc_pc' = "sidebar"
  /\ info' = Unbound /\ stock_data' = Unbound /\ index_data' = Unbound
  /\ market_cap' = Unbound /\ wacc_total_debt' = Unbound /\ w_E' = Unbound /\ w_D' = Unbound
  /\ beta' = Unbound /\ beta_lower_ci' = Unbound /\ beta_upper_ci' = Unbound
  /\ cost_of_equity' = Unbound
  /\ stock_returns' = Unbound /\ index_returns' = Unbound
  /\ credit_spread' = Unbound /\ cost_of_debt' = Unbound
  /\ wacc_lower_ci' = Unbound /\ wacc_point' = Unbound /\ wacc_upper_ci' = Unbound
  /\ caught' = ""
  /\ UNCHANGED <<dcfVars, histVars, rf, emrp, marg_tax_rate, scale_factor, wacc_results>>

\* the DCF page is opened once the WACC page is at rest: its sidebar runs
\* (lines 119-196)
OpenDcfPage ==
  /\ WaccAtRest
  /\ AdvancedMode(RunTexts)

NextSession ==
  \/ GetStockDataFrom(SessionInfos, SessionPriceData)
  \/ GetStockDataFails
  \/ Weights
  \/ CostOfEquity
  \/ CostOfDebt
  \/ WaccResults
  \/ CalculateAgain
  \/ OpenDcfPage

SpecSession == InitSession /\ [][NextSession]_vars

\* C27: with the DCF page's WACC input set to "Use Phase 1 Estimates" after a
\* successful WACC Calculator run in the same session, the lower, point and
\* upper WACC used for discounting and sensitivity are the values that run
\* saved in wacc_results.
C27_SavedWaccReachesDcf ==
  (pc = "ready" /\ wacc_input_mode = "Use Phase 1 Estimates" /\ wacc_results # Unbound) =>
    wacc_values = <<wacc_results.wacc_lower, wacc_results.wacc, wacc_results.wacc_upper>>

\* the record lines 244-250 build from the names of the running script
SavedNow ==
  [wacc_lower |-> wacc_lower_ci', wacc |-> wacc_point', wacc_upper |-> wacc_upper_ci',
   ticker |-> ticker_symbol, timestamp |-> now]

\* C29: across any sequence of Calculate WACC runs in one session,
\* wacc_results is written only by a run that completed every calculation step
\* without raising; a run that fails leaves it exactly as it was, and whenever
\* it is present its three values, ticker and timestamp come from one run.
C29_SavedOnlyByCompletedRun ==
  [][ /\ wacc_results' # wacc_results =>
           /\ wacc_pc = "cost_of_debt" /\ wacc_pc' = "saved"
           /\ caught = "" /\ caught' = ""
           /\ wacc_results' = SavedNow
      /\ wacc_pc' \in {"error", "fetch_failed"} => wacc_results' = wacc_results
    ]_vars

\* a later run that failed, for another ticker, left the record of the first
\* run in place
C29_Witness ==
  /\ now = 2 /\ wacc_pc = "error"
  /\ wacc_results # Unbound
  /\ wacc_results.timestamp = 1 /\ wacc_results.ticker = "MSFT"
  /\ ticker_symbol = "AAPL"

----------------------------------------------------------------------------
(* The projection dates, for reporting dates in every month of a common    *)
(* and a leap year, at and before the month's end.                         *)

AnchorYears == {2023, 2024}

Anchors ==
  {a \in AnchorYears \X (1..12) \X {1, 15, 28, 29, 30, 31} : a[3] <= DaysInMonth(a[1], a[2])}

DatedAnswers == Answers(LtmRevenues, {<<4, 1>>}, {<<Zero, Zero>>}, Anchors, CurrentPrices)

NextDates ==
  \/ SimpleMode
  \/ GetLtmDataFrom(DatedAnswers)
  \/ CreateProjectionDates

SpecDates == InitInput /\ [][NextDates]_vars

\* C25: for every anchor date and horizon N, create_projection_dates returns
\* exactly N dates, all strictly later than the anchor, in increasing order,
\* consecutive dates one year apart, each the month-end of the anchor's
\* calendar month; the anchor period itself is never included.
C25_ProjectionDates ==
  AfterDates =>
    /\ Len(projection_dates) = num_years
    /\ \A i \in 1..Len(projection_dates) :
         /\ DateLess(most_recent_date, projection_dates[i])
         /\ projection_dates[i] = MonthEnd(projection_dates[i][1], most_recent_date[2])
    /\ \A i \in 1..(Len(projection_dates) - 1) :
         /\ projection_dates[i + 1][1] = projection_dates[i][1] + 1
         /\ DateLess(projection_dates[i], projection_dates[i + 1])

\* the anchor is itself a year-end of the range (29 February of a leap year)
\* and the horizon is the longest
C25_Witness ==
  /\ pc = "dated"
  /\ most_recent_date = MonthEnd(2024, 2)
  /\ Len(projection_dates) = MaxYears
  /\ projection_dates[1] = <<2025, 2, 28>>

----------------------------------------------------------------------------
(* The end of the valuation run                                            *)

ValidRunInputs ==
  /\ ~sidebar_error
  /\ RLess(Zero, shares_outstanding)
  /\ RLess(terminal_growth, wacc_lower)

\* C30: the current market price is optional: a valuation run whose company
\* profile has no current price (resolved to 0) and whose other inputs are
\* valid reaches the end of the run (sensitivity, summary table, key insights)
\* without raising an error, the upside shown as not available.
C30_CurrentPriceOptional ==
  (AfterSummary /\ current_price = Zero /\ ValidRunInputs) => pc = "finished"

----------------------------------------------------------------------------
(* The button pressed again in the same session.  The script starts over   *)
(* with the widgets as they are; the provider answers again.               *)

MaxRuns == 2

RerunTexts ==
  GrowthTexts \X {Join(<< <<"1", "0", "0">>, <<" ", "5", "0", " ">> >>)} \X {Join(<< <<"0">> >>)}

RerunAnswers == Answers(LtmRevenues, {<<4, 1>>}, DebtCash, LtmDates, CurrentPrices)

\* what the pipeline of lines 58-111 is given, and what it yields
RunInputs ==
  <<ltm_revenue, growth_pattern, ebit_margin_pattern, reinv_rate_pattern, tax_rate,
    wacc_lower, wacc, wacc_upper, terminal_growth, total_debt, total_cash,
    shares_outstanding>>
RunOutputs == <<projection, valueVars, share_prices>>

\* The button is pressed after a run has ended: the script runs again from
\* its first line, so every name of the earlier run is gone; the widgets
\* keep their values and lines 133-176 compute the same vectors from them.
RunAgain ==
  /\ AfterSummary
  /\ run < MaxRuns
  /\ run' = run + 1
  /\ previous_run' = [inputs |-> RunInputs, outputs |-> RunOutputs]
  /\ pc' = "ready"
  /\ ltm_revenue' = Zero /\ shares_outstanding' = Zero /\ total_debt' = Zero
  /\ total_cash' = Zero /\ most_recent_date' = Unbound /\ current_price' = Zero
  /\ projection_dates' = <<>>
  /\ projection' = NoFrame
  /\ total_pv_fcf' = Zero /\ final_fcf' = Zero /\ terminal_value' = Zero /\ pv_terminal' = Zero
  /\ firm_value' = Zero /\ equity_value' = Zero /\ share_price' = Zero
  /\ upside' = Unbound
  /\ current_projection' = NoFrame /\ share_prices' = <<>>
  /\ UNCHANGED <<waccVars, histVars, widgetVars, patternVars>>

NextRerun ==
  \/ AdvancedMode(RerunTexts)
  \/ GetLtmDataFrom(RerunAnswers)
  \/ CreateProjectionDates
  \/ ProjectFinancials
  \/ DiscountCashFlows
  \/ TerminalValue
  \/ SharePrice
  \/ SensitivityPass
  \/ Summary
  \/ RunAgain

SpecRerun == Init /\ [][NextRerun]_vars

----------------------------------------------------------------------------
(* The historical analysis page (src/pages/2_Historical_Analysis.py).  A   *)
(* column is a sequence of float64 values, one per reporting period,       *)
(* oldest first; nan marks a value that is not available.  The three       *)
(* statements of one company cover the same periods.                       *)

\* column arithmetic, element by element
ColSub(a, b) == [t \in 1..Len(a) |-> RSub(a[t], b[t])]
ColAdd(a, b) == [t \in 1..Len(a) |-> RAdd(a[t], b[t])]
ColDiv(a, b) == [t \in 1..Len(a) |-> RDiv(a[t], b[t])]
ColNeg(a) == [t \in 1..Len(a) |-> RNeg(a[t])]

\* Series.ffill(): a missing value takes the last value before it
RECURSIVE ffill(_)
ffill(col) ==
  IF Len(col) <= 1 THEN col
  ELSE LET front == ffill(SubSeq(col, 1, Len(col) - 1))
           last == col[Len(col)]
       IN Append(front, IF IsNaN(last) THEN front[Len(front)] ELSE last)

\* mutant: the first period's growth is 0
pct_change_from_zero(col, fill) ==
  LET data == IF fill = "pad" THEN ffill(col) ELSE col
  IN [t \in 1..Len(col) |-> IF t = 1 THEN Zero ELSE RSub(RDiv(data[t], data[t - 1]), One)]

\* Series.pct_change() (lines 49, 50): data / data.shift(1) - 1, where data is
\* the series forward-filled when the library's default fill_method is 'pad';
\* the first entry has no predecessor and is nan
pct_change_series(col, fill) ==
  LET data == IF fill = "pad" THEN ffill(col) ELSE col
  IN [t \in 1..Len(col) |-> IF t = 1 THEN NaN ELSE RSub(RDiv(data[t], data[t - 1]), One)]

\* Series.diff() (line 68): col - col.shift(1), the first entry nan
diff(col) == [t \in 1..Len(col) |-> IF t = 1 THEN NaN ELSE RSub(col[t], col[t - 1])]

\* lines 39-52: a copy of the statement with five more columns
calculate_growth_and_margins(income_statement, fill) ==
  [GrossMargin |-> ColDiv(income_statement.GrossProfit, income_statement.TotalRevenue),
   EBITMargin |-> ColDiv(income_statement.EBIT, income_statement.TotalRevenue),
   EBITDAMargin |-> ColDiv(income_statement.EBITDA, income_statement.TotalRevenue),
   RevenueGrowth |-> pct_change_series(income_statement.TotalRevenue, fill),
   EBITGrowth |-> pct_change_series(income_statement.EBIT, fill)] @@ income_statement

\* lines 54-70: a copy of the balance sheet with four more columns
calculate_nwc(sheet) ==
  LET adj_assets == ColSub(sheet.CurrentAssets, sheet.Cash)
      adj_liabilities == ColSub(sheet.CurrentLiabilities, sheet.CurrentDebt)
      nwc == ColSub(adj_assets, adj_liabilities)
  IN [AdjCurrentAssets |-> adj_assets, AdjCurrentLiabilities |-> adj_liabilities,
      NWC |-> nwc, ChangeInNWC |-> diff(nwc)] @@ sheet

\* lines 72-94.  Line 75 assigns the negated column to the frame the caller
\* passed, so the call yields the merged frame and leaves the caller's
\* cash-flow frame changed; both are returned here.
calculate_reinvestment(cash_flows_df, nwc_df, income_df, tax_rate_col) ==
  LET negated == [cash_flows_df EXCEPT !.CapitalExpenditure = ColNeg(@)]
      capex == negated.CapitalExpenditure
      reinvestment == ColAdd(ColSub(capex, negated.DepreciationAndAmortization),
                             nwc_df.ChangeInNWC)
      rate == income_df[tax_rate_col]
      nopat == [t \in 1..Len(capex) |-> RMul(income_df.EBIT[t], RSub(One, rate[t]))]
  IN [cash_flows_df |-> negated,
      merged |-> [CapitalExpenditure |-> capex,
                  DepreciationAndAmortization |-> negated.DepreciationAndAmortization,
                  NWC |-> nwc_df.NWC,
                  ChangeInNWC |-> nwc_df.ChangeInNWC,
                  Reinvestment |-> reinvestment,
                  TaxRate |-> rate,
                  NOPAT |-> nopat,
                  ReinvestmentRate |-> ColDiv(reinvestment, nopat)]]

\* a column of whole amounts; 0 - 1 stands for a cell the provider left empty
Amounts(values) == [t \in 1..Len(values) |-> IF values[t] = 0 - 1 THEN NaN ELSE <<values[t], 1>>]
Quarter == Norm(1, 4)

\* Income statements over three periods: growing; EBIT falling to zero and
\* below it with a period without revenue; cells missing; a tax rate of 100 %
Incomes ==
  { [TotalRevenue |-> Amounts(<<100, 110, 121>>), GrossProfit |-> Amounts(<<50, 55, 66>>),
     EBIT |-> Amounts(<<20, 22, 33>>), EBITDA |-> Amounts(<<30, 33, 44>>),
     TaxRateForCalcs |-> <<Quarter, Quarter, Quarter>>],
    [TotalRevenue |-> Amounts(<<100, 0, 50>>), GrossProfit |-> Amounts(<<50, 0, 20>>),
     EBIT |-> Amounts(<<20, 0, 0 - 10>>), EBITDA |-> Amounts(<<30, 0, 0 - 5>>),
     TaxRateForCalcs |-> <<Quarter, Quarter, Quarter>>],
    [TotalRevenue |-> Amounts(<<0 - 1, 100, 120>>), GrossProfit |-> Amounts(<<50, 60, 70>>),
     EBIT |-> Amounts(<<10, 0 - 1, 30>>), EBITDA |-> Amounts(<<20, 30, 40>>),
     TaxRateForCalcs |-> <<Quarter, NaN, Quarter>>],
    [TotalRevenue |-> Amounts(<<100, 200, 100>>), GrossProfit |-> Amounts(<<50, 100, 50>>),
     EBIT |-> Amounts(<<0 - 20, 40, 20>>), EBITDA |-> Amounts(<<0 - 10, 50, 30>>),
     TaxRateForCalcs |-> <<Quarter, One, Zero>>] }

BalanceSheets ==
  { [CurrentAssets |-> Amounts(<<50, 60, 80>>), Cash |-> Amounts(<<10, 10, 20>>),
     CurrentLiabilities |-> Amounts(<<30, 30, 40>>), CurrentDebt |-> Amounts(<<5, 10, 5>>)],
    [CurrentAssets |-> Amounts(<<50, 50, 40>>), Cash |-> Amounts(<<10, 10, 20>>),
     CurrentLiabilities |-> Amounts(<<30, 30, 40>>), CurrentDebt |-> Amounts(<<5, 0 - 1, 5>>)] }

\* capital expenditure reported as an outflow (negative), as a magnitude
\* (positive), and with a zero and an empty cell
CashFlowStatements ==
  { [CapitalExpenditure |-> <<<<0 - 50, 1>>, <<0 - 60, 1>>, <<0 - 70, 1>>>>,
     DepreciationAndAmortization |-> Amounts(<<10, 10, 10>>)],
    [CapitalExpenditure |-> Amounts(<<50, 60, 70>>),
     DepreciationAndAmortization |-> Amounts(<<10, 10, 10>>)],
    [CapitalExpenditure |-> <<Zero, <<0 - 5, 1>>, NaN>>,
     DepreciationAndAmortization |-> Amounts(<<5, 0 - 1, 5>>)] }

\* a company with a single reported period
SinglePeriod ==
  << [TotalRevenue |-> Amounts(<<100>>), GrossProfit |-> Amounts(<<50>>),
      EBIT |-> Amounts(<<20>>), EBITDA |-> Amounts(<<30>>), TaxRateForCalcs |-> <<Quarter>>],
     [CurrentAssets |-> Amounts(<<50>>), Cash |-> Amounts(<<10>>),
      CurrentLiabilities |-> Amounts(<<30>>), CurrentDebt |-> Amounts(<<5>>)],
     [CapitalExpenditure |-> <<<<0 - 50, 1>>>>, DepreciationAndAmortization |-> Amounts(<<10>>)] >>

Statements == (Incomes \X BalanceSheets \X CashFlowStatements) \cup {SinglePeriod}

FillMethods == {"pad", "none"}

InitHist ==
  /\ pc = "sidebar"
  /\ num_years = MinYears
  /\ tax_rate = Pct(19)
  /\ terminal_growth = Pct(3)
  /\ wacc_lower = Norm(796, 10000) /\ wacc = Norm(925, 10000) /\ wacc_upper = Norm(1054, 10000)
  /\ wacc_input_mode = "Manual"
  /\ InitRun
  /\ WaccDefaults
  /\ hist_pc = "sidebar"
  /\ fill_method \in FillMethods
  /\ income_stmt = Unbound /\ balance_sheet = Unbound /\ cash_flows = Unbound
  /\ reported_capex = Unbound
  /\ income_with_metrics = Unbound /\ balance_with_nwc = Unbound
  /\ reinvestment_df = Unbound

\* lines 111-115: the button was pressed and get_financial_data returned the
\* three statements
GetFinancialData ==
  /\ hist_pc = "sidebar"
  /\ \E st \in Statements :
       /\ income_stmt' = st[1] /\ balance_sheet' = st[2] /\ cash_flows' = st[3]
       /\ reported_capex' = st[3].CapitalExpenditure
  /\ hist_pc' = "fetched"
  /\ UNCHANGED <<dcfVars, waccVars, fill_method, income_with_metrics, balance_with_nwc,
                 reinvestment_df>>

\* lines 35-37 and 396-397: get_financial_data caught an exception
GetFinancialDataFails ==
  /\ hist_pc = "sidebar"
  /\ hist_pc' = "fetch_failed"
  /\ UNCHANGED <<dcfVars, waccVars, fill_method, histDataVars, income_with_metrics,
                 balance_with_nwc, reinvestment_df>>

\* lines 121-122
CalculateMetrics ==
  /\ hist_pc = "fetched"
  /\ income_with_metrics' = calculate_growth_and_margins(income_stmt, fill_method)
  /\ balance_with_nwc' = calculate_nwc(balance_sheet)
  /\ hist_pc' = "metrics"
  /\ UNCHANGED <<dcfVars, waccVars, fill_method, histDataVars, reinvestment_df>>

\* lines 129-134: the call changes the frame that `cash_flows` names
CalculateReinvestment ==
  /\ hist_pc = "metrics"
  /\ LET r == calculate_reinvestment(cash_flows, balance_with_nwc, income_stmt,
                                     "TaxRateForCalcs")
     IN /\ reinvestment_df' = r.merged
        /\ cash_flows' = r.cash_flows_df
  /\ hist_pc' = "reinvested"
  /\ UNCHANGED <<dcfVars, waccVars, fill_method, income_stmt, balance_sheet, reported_capex,
                 income_with_metrics, balance_with_nwc>>

NextHist ==
  \/ GetFinancialData
  \/ GetFinancialDataFails
  \/ CalculateMetrics
  \/ CalculateReinvestment

SpecHist == InitHist /\ [][NextHist]_vars

AfterMetrics == hist_pc \in {"metrics", "reinvested"}
Present(x) == ~IsNaN(x)

\* C22: in every period-over-period series (revenue growth, EBIT growth,
\* change in NWC) the entry of the first reporting period is the
\* not-available marker and never a number such as 0; every later entry with
\* both values present is value_t / value_{t-1} - 1 or NWC_t - NWC_{t-1}.
C22_FirstPeriodNotAvailable ==
  AfterMetrics =>
    LET Growth(values, growth) ==
          /\ IsNaN(growth[1])
          /\ \A t \in 2..Len(values) :
               (Present(values[t]) /\ Present(values[t - 1])) =>
                 growth[t] = RSub(RDiv(values[t], values[t - 1]), One)
    IN /\ Growth(income_stmt.TotalRevenue, income_with_metrics.RevenueGrowth)
       /\ Growth(income_stmt.EBIT, income_with_metrics.EBITGrowth)
       /\ IsNaN(balance_with_nwc.ChangeInNWC[1])
       /\ \A t \in 2..Len(balance_with_nwc.NWC) :
            (Present(balance_with_nwc.NWC[t]) /\ Present(balance_with_nwc.NWC[t - 1])) =>
              balance_with_nwc.ChangeInNWC[t] =
                RSub(balance_with_nwc.NWC[t], balance_with_nwc.NWC[t - 1])

\* three periods with every value present: growth of 10 % and a change in
\* NWC of 15 in the second period
C22_Witness ==
  /\ hist_pc = "metrics"
  /\ Len(income_stmt.TotalRevenue) = 3
  /\ income_with_metrics.RevenueGrowth[2] = Norm(1, 10)
  /\ income_with_metrics.EBITGrowth[3] = Norm(1, 2)
  /\ balance_with_nwc.ChangeInNWC[2] = <<15, 1>>
  /\ IsNaN(income_with_metrics.RevenueGrowth[1])

\* the positive magnitude of an amount
Magnitude(x) == IF RLess(x, Zero) THEN RNeg(x) ELSE x

\* C23: calculate_reinvestment computes reinvestment_t = capex_t -
\* depreciation_t + changeInNWC_t with capex_t the positive magnitude of the
\* reported capital expenditure, whatever sign the provider reported it with.
C23_CapexMagnitude ==
  hist_pc = "reinvested" =>
    \A t \in 1..Len(reported_capex) :
      /\ reinvestment_df.CapitalExpenditure[t] = Magnitude(reported_capex[t])
      /\ reinvestment_df.Reinvestment[t] =
           RAdd(RSub(Magnitude(reported_capex[t]), cash_flows.DepreciationAndAmortization[t]),
                balance_with_nwc.ChangeInNWC[t])

\* C24: for every period whose NOPAT is zero or negative the reinvestment rate
\* is the undefined marker, not zero, not infinity and not a finite ratio;
\* for NOPAT > 0 it is reinvestment_t / NOPAT_t.
C24_RateUndefinedWithoutProfit ==
  hist_pc = "reinvested" =>
    \A t \in 1..Len(reinvestment_df.NOPAT) :
      LET nopat == reinvestment_df.NOPAT[t]
          rate == reinvestment_df.ReinvestmentRate[t]
      IN /\ (nopat = Zero \/ RLess(nopat, Zero)) => IsNaN(rate)
         /\ RLess(Zero, nopat) => rate = RDiv(reinvestment_df.Reinvestment[t], nopat)

\* C28: calculate_reinvestment does not modify the series it is given, so
\* calling it twice on the same inputs returns the same capital expenditure,
\* reinvestment and reinvestment rate both times.
C28_ReinvestmentLeavesInputs ==
  [][ (hist_pc = "metrics" /\ hist_pc' = "reinvested") =>
        /\ cash_flows' = cash_flows
        /\ balance_with_nwc' = balance_with_nwc /\ income_stmt' = income_stmt
        /\ LET again == calculate_reinvestment(cash_flows', balance_with_nwc', income_stmt',
                                               "TaxRateForCalcs").merged
           IN /\ again.CapitalExpenditure = reinvestment_df'.CapitalExpenditure
              /\ again.Reinvestment = reinvestment_df'.Reinvestment
              /\ again.ReinvestmentRate = reinvestment_df'.ReinvestmentRate
    ]_vars

====
